---------------------------- MODULE Spec2Model ----------------------------
(***************************************************************************)
(* The fatigue engine of boltfit (src/lib/fatigue.ts, FatigueCalculator)  *)
(* as a state machine.                                                     *)
(*                                                                         *)
(* Numbers.  The program computes in real-valued (double) arithmetic.      *)
(* The model computes the same expressions exactly, in fixed point:        *)
(*   - a fatigue level or increase x is held as the integer x * Unit,      *)
(*     Unit = 600000, so 17.28 is 10368000 and 100 is 60000000;            *)
(*   - a time is an integer number of milliseconds (Date.now());           *)
(*   - a recovery rate and a difficulty multiplier are held in tenths      *)
(*     (2.5 per minute is 25, 1.3 is 13);                                  *)
(*   - exerciseIntensity is held in tenths (0.8 is 8); exerciseVolume,     *)
(*     exerciseDuration (s) and restTime (s) are the program's numbers.    *)
(* With volumes that are multiples of 100 and durations and rests that     *)
(* are multiples of 30 s every quotient of the program is exact in these   *)
(* units (InputsOnGrid).  Rounding of IEEE doubles is not modelled.        *)
(* A call runs to completion at one value of the clock; the clock advances *)
(* between calls (Tick).                                                   *)
(***************************************************************************)
EXTENDS Integers, Sequences, FiniteSets, TLC

VARIABLES
    muscleFatigue,     \* the Map, as the sequence of its values in insertion order
    workoutStartTime,  \* FatigueCalculator.workoutStartTime
    now,               \* what Date.now() returns
    ret,               \* the call made by the last step and what it returned
    recorded,          \* history: per muscle, the updateFatigue calls since the last reset
    resets,            \* history: the resetFatigue calls made
    inFlight,          \* the updateFatigue calls that have started and not returned
    screen             \* the state hooks of ActiveWorkoutScreen and of its RestTimerModal

vars == <<muscleFatigue, workoutStartTime, now, ret, recorded, resets, inFlight, screen>>

\* ------------------------------------------------------------------ bounds

\* The clock stops advancing here (ms).
MaxTime == 450000

\* updateFatigue calls between two resets.
MaxSets == 3

\* resetFatigue calls.
MaxResets == 1

\* ------------------------------------------------------------------ units

MsPerMinute == 1000 * 60

\* One fatigue point in model units: tenths of a rate times ms of a minute.
Unit == 10 * MsPerMinute

\* NaN, the number every arithmetic operation on a value that is not a number returns.
\* It is held as an integer below every level and every time of the model, so that
\* NaN > x is false as it is in the program; NaN < x is excluded where it is asked.
NaN == -2147483647

\* a * b, a + b, a - b and the quotient a / b of the program's numbers.
Times(a, b) == IF a = NaN \/ b = NaN THEN NaN ELSE a * b

Plus(a, b) == IF a = NaN \/ b = NaN THEN NaN ELSE a + b

Minus(a, b) == IF a = NaN \/ b = NaN THEN NaN ELSE a - b

Quotient(a, b) == IF a = NaN \/ b = NaN THEN NaN ELSE a \div b

\* Math.min and Math.max: NaN when an argument is NaN.
Min(a, b) == IF a = NaN \/ b = NaN THEN NaN ELSE IF a <= b THEN a ELSE b

Max(a, b) == IF a = NaN \/ b = NaN THEN NaN ELSE IF a >= b THEN a ELSE b

\* ------------------------------------------------------------------ inputs

Muscles == {"Chest", "Legs", "chest"}

\* Property names that the object literals of the two rate tables inherit from
\* Object.prototype.
ObjectPrototypeKeys ==
    {"constructor", "toString", "toLocaleString", "valueOf", "hasOwnProperty",
     "isPrototypeOf", "propertyIsEnumerable", "__proto__"}

\* The strings updateFatigue is given as muscleGroup: table keys, a key that differs
\* from a table key by case, and a name that is in neither table.
Keys == Muscles \cup {"constructor"}

Difficulties == {"beginner", "intermediate", "advanced"}

Intensities == {0, 5, 8, 10}

Volumes == {0, 500, 1600, 2000, 100000}

Durations == {0, 30, 60, 90, 600}

Rests == {0, 120, 150, 300, 600}

Ticks == {150000, 300000}

\* Every input calculateFatigueIncrease is tried on.
FatigueFactors ==
    [exerciseIntensity : Intensities, exerciseVolume : Volumes,
     exerciseDuration : Durations, restTime : Rests,
     muscleGroup : Muscles, exerciseDifficulty : Difficulties]

\* The bench press set of FatigueDemo.simulateExercise, for any muscle group.
BenchSet(muscleGroup) ==
    [exerciseIntensity |-> 8, exerciseVolume |-> 200 * 8, exerciseDuration |-> 60,
     restTime |-> 120, muscleGroup |-> muscleGroup, exerciseDifficulty |-> "intermediate"]

\* A set with every factor at its cap.
HeavySet(muscleGroup) ==
    [exerciseIntensity |-> 10, exerciseVolume |-> 100000, exerciseDuration |-> 600,
     restTime |-> 0, muscleGroup |-> muscleGroup, exerciseDifficulty |-> "intermediate"]

\* The sets updateFatigue is called with.
SetInputs == {BenchSet("Chest")} \cup {HeavySet(m) : m \in Muscles}

\* Every quotient the program takes of these inputs is exact in the model's units.
InputsOnGrid ==
    /\ \A v \in Volumes : v % 100 = 0
    /\ \A d \in Durations : d % 30 = 0
    /\ \A r \in Rests : r % 30 = 0
    /\ \A t \in Ticks : t > 0 /\ t % 30000 = 0
    /\ SetInputs \subseteq FatigueFactors

\* ------------------------------------------------------------------ tables

\* Base fatigue per set.
MUSCLE_FATIGUE_RATES ==
    [Chest |-> 15, Back |-> 12, Shoulders |-> 18, Biceps |-> 20, Triceps |-> 18,
     Legs |-> 10, Core |-> 8, Calves |-> 25, Hamstrings |-> 12, Quadriceps |-> 10,
     Glutes |-> 8, Forearms |-> 30, Traps |-> 15, Lats |-> 12, Deltoids |-> 18,
     Pectorals |-> 15, Abdominals |-> 8, Obliques |-> 10]
    @@ ("Lower Back" :> 12) @@ ("Upper Back" :> 12)

\* Recovery per minute, in tenths.
MUSCLE_RECOVERY_RATES ==
    [Chest |-> 25, Back |-> 30, Shoulders |-> 20, Biceps |-> 15, Triceps |-> 20,
     Legs |-> 40, Core |-> 50, Calves |-> 10, Hamstrings |-> 30, Quadriceps |-> 40,
     Glutes |-> 45, Forearms |-> 5, Traps |-> 25, Lats |-> 30, Deltoids |-> 20,
     Pectorals |-> 25, Abdominals |-> 50, Obliques |-> 40]
    @@ ("Lower Back" :> 30) @@ ("Upper Back" :> 30)

\* In tenths.
DIFFICULTY_MULTIPLIERS == [beginner |-> 8, intermediate |-> 10, advanced |-> 13]

\* MUSCLE_FATIGUE_RATES[muscleGroup] || 10.  The lookup of a name the object literal
\* inherits returns a function or an object: it is truthy, so || keeps it, and as a
\* factor of a product it is NaN.
baseRate(muscleGroup) ==
    IF muscleGroup \in DOMAIN MUSCLE_FATIGUE_RATES THEN MUSCLE_FATIGUE_RATES[muscleGroup]
    ELSE IF muscleGroup \in ObjectPrototypeKeys THEN NaN
    ELSE 10

\* MUSCLE_RECOVERY_RATES[muscleGroup] || 2.0, in tenths; NaN as for baseRate.
recoveryRateOf(muscleGroup) ==
    IF muscleGroup \in DOMAIN MUSCLE_RECOVERY_RATES THEN MUSCLE_RECOVERY_RATES[muscleGroup]
    ELSE IF muscleGroup \in ObjectPrototypeKeys THEN NaN
    ELSE 20

\* ------------------------------------------------------------------ the Map

\* Position of the entry with this key in insertion order, 0 when absent.
indexOf(mf, muscleGroup) ==
    IF \E i \in 1..Len(mf) : mf[i].muscleGroup = muscleGroup
    THEN CHOOSE i \in 1..Len(mf) : mf[i].muscleGroup = muscleGroup
    ELSE 0

\* Map.has
has(mf, muscleGroup) == indexOf(mf, muscleGroup) # 0

\* Map.get of a present key
get(mf, muscleGroup) == mf[indexOf(mf, muscleGroup)]

\* A set that moves a present key to the last position.
set_MoveToEnd(mf, muscleGroup, fatigue) ==
    Append(SelectSeq(mf, LAMBDA f : f.muscleGroup # muscleGroup), fatigue)

\* A set that adds an entry whether or not the key is present.
set_AlwaysAppend(mf, muscleGroup, fatigue) == Append(mf, fatigue)

\* Map.set: a present key keeps its position, a new key goes last.
set(mf, muscleGroup, fatigue) ==
    IF has(mf, muscleGroup)
    THEN [mf EXCEPT ![indexOf(mf, muscleGroup)] = fatigue]
    ELSE Append(mf, fatigue)

\* ------------------------------------------------------------------ calculateFatigueIncrease

\* Math.min(exerciseVolume / 1000, 2.0), in tenths
volumeFactor(factors) == Min(factors.exerciseVolume \div 100, 20)

\* exerciseIntensity * 1.5, in twentieths
intensityFactor(factors) == factors.exerciseIntensity * 3

\* Math.min(exerciseDuration / 60, 1.5), in halves
durationFactor(factors) == Min(factors.exerciseDuration \div 30, 3)

\* A rest factor that grows with the rest taken.
restFactor_Rising(factors) == Max(factors.restTime \div 30, 5)

\* Math.max(1.0 - restTime / 300, 0.5), in tenths
restFactor(factors) == Max(10 - factors.restTime \div 30, 5)

\* The product of the denominators of the six factors above (the base rate's is 1).
FactorScale == 10 * 10 * 20 * 2 * 10

\* calculateFatigueIncrease without the Math.min(..., 50) of line 108.
calculateFatigueIncrease_NoCap(factors) ==
    baseRate(factors.muscleGroup) * DIFFICULTY_MULTIPLIERS[factors.exerciseDifficulty]
    * volumeFactor(factors) * intensityFactor(factors)
    * durationFactor(factors) * restFactor(factors)
    * (Unit \div FactorScale)

\* calculateFatigueIncrease with the rest factor left out of the product.
calculateFatigueIncrease_NoRest(factors) ==
    Min(baseRate(factors.muscleGroup) * DIFFICULTY_MULTIPLIERS[factors.exerciseDifficulty]
        * volumeFactor(factors) * intensityFactor(factors)
        * durationFactor(factors) * 10
        * (Unit \div FactorScale),
        50 * Unit)

\* The increase of one set, in Units.
calculateFatigueIncrease(factors) ==
    LET difficultyMultiplier == DIFFICULTY_MULTIPLIERS[factors.exerciseDifficulty]
        fatigueIncrease ==
            Times(baseRate(factors.muscleGroup),
                  difficultyMultiplier
                  * volumeFactor(factors) * intensityFactor(factors)
                  * durationFactor(factors) * restFactor(factors)
                  * (Unit \div FactorScale))
    IN  Min(fatigueIncrease, 50 * Unit)

\* ------------------------------------------------------------------ updateFatigue

\* updateFatigue without the Math.min(100, ...) of lines 139-142.
updateFatigue_NoCap(mf, currentTime, factors) ==
    LET muscleGroup == factors.muscleGroup
        fatigue ==
            IF has(mf, muscleGroup) THEN get(mf, muscleGroup)
            ELSE [muscleGroup |-> muscleGroup, fatigueLevel |-> 0,
                  lastExerciseTime |-> currentTime, totalVolume |-> 0,
                  exerciseCount |-> 0, recoveryRate |-> recoveryRateOf(muscleGroup)]
        timeSinceLastExercise == currentTime - fatigue.lastExerciseTime
        recovery == timeSinceLastExercise * fatigue.recoveryRate
        recovered == Max(0, fatigue.fatigueLevel - recovery)
        fatigueIncrease == calculateFatigueIncrease(factors)
    IN  set(mf, muscleGroup,
            [fatigue EXCEPT
                !.fatigueLevel = recovered + fatigueIncrease,
                !.lastExerciseTime = currentTime,
                !.totalVolume = @ + factors.exerciseVolume,
                !.exerciseCount = @ + 1])

\* updateFatigue adding the increase to the stored level, the recovery forgotten.
updateFatigue_NoDecay(mf, currentTime, factors) ==
    LET muscleGroup == factors.muscleGroup
        fatigue ==
            IF has(mf, muscleGroup) THEN get(mf, muscleGroup)
            ELSE [muscleGroup |-> muscleGroup, fatigueLevel |-> 0,
                  lastExerciseTime |-> currentTime, totalVolume |-> 0,
                  exerciseCount |-> 0, recoveryRate |-> recoveryRateOf(muscleGroup)]
        fatigueIncrease == calculateFatigueIncrease(factors)
    IN  set(mf, muscleGroup,
            [fatigue EXCEPT
                !.fatigueLevel = Min(100 * Unit, fatigue.fatigueLevel + fatigueIncrease),
                !.lastExerciseTime = currentTime,
                !.totalVolume = @ + factors.exerciseVolume,
                !.exerciseCount = @ + 1])

\* updateFatigue creating a new state with exerciseCount 1 and the set's volume, and
\* then counting the set again.
updateFatigue_CountedTwice(mf, currentTime, factors) ==
    LET muscleGroup == factors.muscleGroup
        fatigue ==
            IF has(mf, muscleGroup) THEN get(mf, muscleGroup)
            ELSE [muscleGroup |-> muscleGroup, fatigueLevel |-> 0,
                  lastExerciseTime |-> currentTime,
                  totalVolume |-> factors.exerciseVolume,
                  exerciseCount |-> 1, recoveryRate |-> recoveryRateOf(muscleGroup)]
        timeSinceLastExercise == currentTime - fatigue.lastExerciseTime
        recovery == timeSinceLastExercise * fatigue.recoveryRate
        recovered == Max(0, fatigue.fatigueLevel - recovery)
        fatigueIncrease == calculateFatigueIncrease(factors)
    IN  set(mf, muscleGroup,
            [fatigue EXCEPT
                !.fatigueLevel = Min(100 * Unit, recovered + fatigueIncrease),
                !.lastExerciseTime = currentTime,
                !.totalVolume = @ + factors.exerciseVolume,
                !.exerciseCount = @ + 1])

\* updateFatigue writing the default recovery rate into a state that exists already.
updateFatigue_RateRewritten(mf, currentTime, factors) ==
    LET muscleGroup == factors.muscleGroup
        fatigue ==
            IF has(mf, muscleGroup) THEN [get(mf, muscleGroup) EXCEPT !.recoveryRate = 20]
            ELSE [muscleGroup |-> muscleGroup, fatigueLevel |-> 0,
                  lastExerciseTime |-> currentTime, totalVolume |-> 0,
                  exerciseCount |-> 0, recoveryRate |-> recoveryRateOf(muscleGroup)]
        timeSinceLastExercise == currentTime - fatigue.lastExerciseTime
        recovery == timeSinceLastExercise * fatigue.recoveryRate
        recovered == Max(0, fatigue.fatigueLevel - recovery)
        fatigueIncrease == calculateFatigueIncrease(factors)
    IN  set(mf, muscleGroup,
            [fatigue EXCEPT
                !.fatigueLevel = Min(100 * Unit, recovered + fatigueIncrease),
                !.lastExerciseTime = currentTime,
                !.totalVolume = @ + factors.exerciseVolume,
                !.exerciseCount = @ + 1])

\* The Map after updateFatigue(factors) called at currentTime.
\* updateFatigue that first lets every stored muscle recover up to the time of
\* the call and stamps it with that time.
updateFatigue_AllRestamped(mf, currentTime, factors) ==
    LET muscleGroup == factors.muscleGroup
        all == [i \in 1..Len(mf) |->
                   [mf[i] EXCEPT
                       !.fatigueLevel =
                           Max(0, Minus(@, Times(currentTime - mf[i].lastExerciseTime,
                                                 mf[i].recoveryRate))),
                       !.lastExerciseTime = currentTime]]
        fatigue ==
            IF has(all, muscleGroup) THEN get(all, muscleGroup)
            ELSE [muscleGroup |-> muscleGroup, fatigueLevel |-> 0,
                  lastExerciseTime |-> currentTime, totalVolume |-> 0,
                  exerciseCount |-> 0, recoveryRate |-> recoveryRateOf(muscleGroup)]
        fatigueIncrease == calculateFatigueIncrease(factors)
    IN  set(all, muscleGroup,
            [fatigue EXCEPT
                !.fatigueLevel = Min(100 * Unit, Plus(@, fatigueIncrease)),
                !.totalVolume = @ + factors.exerciseVolume,
                !.exerciseCount = @ + 1])

\* updateFatigue keeping the volume of the last set alone as totalVolume.
updateFatigue_VolumeReplaced(mf, currentTime, factors) ==
    LET muscleGroup == factors.muscleGroup
        fatigue ==
            IF has(mf, muscleGroup) THEN get(mf, muscleGroup)
            ELSE [muscleGroup |-> muscleGroup, fatigueLevel |-> 0,
                  lastExerciseTime |-> currentTime, totalVolume |-> 0,
                  exerciseCount |-> 0, recoveryRate |-> recoveryRateOf(muscleGroup)]
        timeSinceLastExercise == currentTime - fatigue.lastExerciseTime
        recovery == Times(timeSinceLastExercise, fatigue.recoveryRate)
        recovered == Max(0, Minus(fatigue.fatigueLevel, recovery))
        fatigueIncrease == calculateFatigueIncrease(factors)
    IN  set(mf, muscleGroup,
            [fatigue EXCEPT
                !.fatigueLevel = Min(100 * Unit, Plus(recovered, fatigueIncrease)),
                !.lastExerciseTime = currentTime,
                !.totalVolume = factors.exerciseVolume,
                !.exerciseCount = @ + 1])

updateFatigue(mf, currentTime, factors) ==
    LET muscleGroup == factors.muscleGroup
        fatigue ==
            IF has(mf, muscleGroup) THEN get(mf, muscleGroup)
            ELSE [muscleGroup |-> muscleGroup, fatigueLevel |-> 0,
                  lastExerciseTime |-> currentTime, totalVolume |-> 0,
                  exerciseCount |-> 0, recoveryRate |-> recoveryRateOf(muscleGroup)]
        \* (ms / 1000 / 60) * rate is timeSince * rate in Units
        timeSinceLastExercise == currentTime - fatigue.lastExerciseTime
        recovery == Times(timeSinceLastExercise, fatigue.recoveryRate)
        recovered == Max(0, Minus(fatigue.fatigueLevel, recovery))
        fatigueIncrease == calculateFatigueIncrease(factors)
    IN  set(mf, muscleGroup,
            [fatigue EXCEPT
                !.fatigueLevel = Min(100 * Unit, Plus(recovered, fatigueIncrease)),
                !.lastExerciseTime = currentTime,
                !.totalVolume = @ + factors.exerciseVolume,
                !.exerciseCount = @ + 1])

\* ------------------------------------------------------------------ queries

\* getFatigueLevel without the Math.max(0, ...) of line 161.
getFatigueLevel_NoFloor(mf, currentTime, muscleGroup) ==
    IF ~has(mf, muscleGroup) THEN 0
    ELSE LET fatigue == get(mf, muscleGroup)
             timeSinceLastExercise == currentTime - fatigue.lastExerciseTime
             recovery == timeSinceLastExercise * fatigue.recoveryRate
         IN  fatigue.fatigueLevel - recovery

\* getFatigueLevel letting the muscle recover at half its rate.
getFatigueLevel_HalfRate(mf, currentTime, muscleGroup) ==
    IF ~has(mf, muscleGroup) THEN 0
    ELSE LET fatigue == get(mf, muscleGroup)
             timeSinceLastExercise == currentTime - fatigue.lastExerciseTime
             recovery == Times(timeSinceLastExercise, fatigue.recoveryRate) \div 2
         IN  Max(0, Minus(fatigue.fatigueLevel, recovery))

\* What getFatigueLevel(muscleGroup) returns at currentTime, in Units.
getFatigueLevel(mf, currentTime, muscleGroup) ==
    IF ~has(mf, muscleGroup) THEN 0
    ELSE LET fatigue == get(mf, muscleGroup)
             timeSinceLastExercise == currentTime - fatigue.lastExerciseTime
             recovery == Times(timeSinceLastExercise, fatigue.recoveryRate)
         IN  Max(0, Minus(fatigue.fatigueLevel, recovery))

\* getAllFatigueLevels with the elapsed time left in seconds (the / 60 of line 169 lost).
getAllFatigueLevels_Seconds(mf, currentTime) ==
    [i \in 1..Len(mf) |->
        LET fatigue == mf[i]
            timeSinceLastExercise == (currentTime - fatigue.lastExerciseTime) * 60
            recovery == timeSinceLastExercise * fatigue.recoveryRate
            currentFatigue == Max(0, fatigue.fatigueLevel - recovery)
        IN  [fatigue EXCEPT !.fatigueLevel = currentFatigue]]

\* What getAllFatigueLevels() returns at currentTime: a new array of new objects.
getAllFatigueLevels(mf, currentTime) ==
    [i \in 1..Len(mf) |->
        LET fatigue == mf[i]
            timeSinceLastExercise == currentTime - fatigue.lastExerciseTime
            recovery == Times(timeSinceLastExercise, fatigue.recoveryRate)
            currentFatigue == Max(0, Minus(fatigue.fatigueLevel, recovery))
        IN  [fatigue EXCEPT !.fatigueLevel = currentFatigue]]

\* A duration counted from time 0 and not from workoutStartTime.
getWorkoutDuration_FromZero(start, currentTime) == currentTime

\* getWorkoutDuration(), in minutes * MsPerMinute
getWorkoutDuration(start, currentTime) == currentTime - start

\* getExerciseFatigue taking every entry of targetMuscles as secondary, the primary
\* muscle included.
getExerciseFatigue_CountsPrimary(mf, currentTime, exercise) ==
    LET primaryFatigue == getFatigueLevel(mf, currentTime, exercise.muscleGroup)
        targets ==
            IF "targetMuscles" \in DOMAIN exercise THEN exercise.targetMuscles ELSE << >>
        secondarySum[i \in 0..Len(targets)] ==
            IF i = 0 THEN 0
            ELSE secondarySum[i - 1] + getFatigueLevel(mf, currentTime, targets[i])
        avgSecondaryFatigue ==
            IF Len(targets) > 0 THEN (4 * secondarySum[Len(targets)]) \div Len(targets)
            ELSE 0
    IN  [primaryFatigue |-> 4 * primaryFatigue,
         secondaryFatigue |-> avgSecondaryFatigue,
         overallFatigue |->
             (7 * 4 * primaryFatigue) \div 10 + (3 * avgSecondaryFatigue) \div 10]

\* What getExerciseFatigue(exercise) returns at currentTime.  Its three numbers are
\* held in quarters of a Unit (x is x * 4 * Unit), which keeps the mean of up to
\* three levels and the 0.7 / 0.3 weighting exact.
getExerciseFatigue(mf, currentTime, exercise) ==
    LET primaryFatigue == getFatigueLevel(mf, currentTime, exercise.muscleGroup)
        targets ==
            IF "targetMuscles" \in DOMAIN exercise
            THEN SelectSeq(exercise.targetMuscles,
                           LAMBDA muscle : muscle # exercise.muscleGroup)
            ELSE << >>
        secondarySum[i \in 0..Len(targets)] ==
            IF i = 0 THEN 0
            ELSE Plus(secondarySum[i - 1], getFatigueLevel(mf, currentTime, targets[i]))
        secondaryFatigue == secondarySum[Len(targets)]
        secondaryCount == Len(targets)
        avgSecondaryFatigue ==
            IF secondaryCount > 0
            THEN Quotient(Times(4, secondaryFatigue), secondaryCount) ELSE 0
        overallFatigue ==
            Plus(Quotient(Times(7 * 4, primaryFatigue), 10),
                 Quotient(Times(3, avgSecondaryFatigue), 10))
    IN  [primaryFatigue |-> Times(4, primaryFatigue),
         secondaryFatigue |-> avgSecondaryFatigue,
         overallFatigue |-> overallFatigue]

\* The quotients of getExerciseFatigue are exact on (mf, currentTime, exercise).
exerciseFatigueExact(mf, currentTime, exercise) ==
    LET primaryFatigue == getFatigueLevel(mf, currentTime, exercise.muscleGroup)
        targets ==
            IF "targetMuscles" \in DOMAIN exercise
            THEN SelectSeq(exercise.targetMuscles,
                           LAMBDA muscle : muscle # exercise.muscleGroup)
            ELSE << >>
        secondarySum[i \in 0..Len(targets)] ==
            IF i = 0 THEN 0
            ELSE secondarySum[i - 1] + getFatigueLevel(mf, currentTime, targets[i])
        avg4 == IF Len(targets) > 0 THEN (4 * secondarySum[Len(targets)]) \div Len(targets)
                ELSE 0
    IN  /\ Len(targets) > 0 => (4 * secondarySum[Len(targets)]) % Len(targets) = 0
        /\ (7 * 4 * primaryFatigue) % 10 = 0
        /\ (3 * avg4) % 10 = 0

\* Math.floor in the place of Math.round.
round_Floor(level) == level \div Unit

\* Math.round of a level held in Units: the nearest whole number, halves upwards.
round(level) == (2 * level + Unit) \div (2 * Unit)

\* `${f.muscleGroup} (${Math.round(f.fatigueLevel)}% fatigue)`
percentText(f) == f.muscleGroup \o " (" \o ToString(round(f.fatigueLevel)) \o "% fatigue)"

\* A sort that puts the last of several equal elements first.
RECURSIVE sortByFatigue_LastOfEqual(_)
sortByFatigue_LastOfEqual(arr) ==
    IF Len(arr) <= 1 THEN arr
    ELSE LET least ==
                 CHOOSE i \in 1..Len(arr) :
                     /\ \A j \in 1..Len(arr) : arr[i].fatigueLevel <= arr[j].fatigueLevel
                     /\ \A j \in (i + 1)..Len(arr) : arr[j].fatigueLevel > arr[i].fatigueLevel
             rest == [k \in 1..(Len(arr) - 1) |-> IF k < least THEN arr[k] ELSE arr[k + 1]]
         IN  <<arr[least]>> \o sortByFatigue_LastOfEqual(rest)

\* Array.prototype.sort((a, b) => a.fatigueLevel - b.fatigueLevel): stable.
RECURSIVE sortByFatigue(_)
sortByFatigue(arr) ==
    IF Len(arr) <= 1 THEN arr
    ELSE LET least ==
                 CHOOSE i \in 1..Len(arr) :
                     /\ \A j \in 1..Len(arr) : arr[i].fatigueLevel <= arr[j].fatigueLevel
                     /\ \A j \in 1..(i - 1) : arr[j].fatigueLevel > arr[i].fatigueLevel
             rest == [k \in 1..(Len(arr) - 1) |-> IF k < least THEN arr[k] ELSE arr[k + 1]]
         IN  <<arr[least]>> \o sortByFatigue(rest)

FallbackSuggestion == "Consider a different muscle group or take a longer rest"

\* getNextExerciseSuggestion without its sort: the first muscle below 30 is named.
getNextExerciseSuggestion_Unsorted(allFatigue) ==
    LET lowFatigueMuscles == SelectSeq(allFatigue, LAMBDA f : f.fatigueLevel < 30 * Unit)
    IN  IF Len(lowFatigueMuscles) = 0 THEN FallbackSuggestion
        ELSE "Consider targeting " \o percentText(lowFatigueMuscles[1])

\* getNextExerciseSuggestion naming Chest at 0 when no muscle below 30 is listed and
\* Chest is not listed at all.
getNextExerciseSuggestion_ImplicitZero(allFatigue) ==
    LET lowFatigueMuscles ==
            SelectSeq(allFatigue,
                      LAMBDA f : f.fatigueLevel # NaN /\ f.fatigueLevel < 30 * Unit)
        sortedByFatigue == sortByFatigue(lowFatigueMuscles)
    IN  IF Len(lowFatigueMuscles) = 0
        THEN IF \E i \in 1..Len(allFatigue) : allFatigue[i].muscleGroup = "Chest"
             THEN FallbackSuggestion
             ELSE "Consider targeting Chest (0% fatigue)"
        ELSE "Consider targeting " \o percentText(sortedByFatigue[1])

getNextExerciseSuggestion(allFatigue) ==
    LET lowFatigueMuscles ==
            SelectSeq(allFatigue,
                      LAMBDA f : f.fatigueLevel # NaN /\ f.fatigueLevel < 30 * Unit)
        sortedByFatigue == sortByFatigue(lowFatigueMuscles)
    IN  IF Len(lowFatigueMuscles) = 0 THEN FallbackSuggestion
        ELSE "Consider targeting " \o percentText(sortedByFatigue[1])

\* getFatigueRecommendations counting a level of exactly 70 as high.
getFatigueRecommendations_HighAt70(mf, currentTime) ==
    LET allFatigue == getAllFatigueLevels(mf, currentTime)
        highFatigue == SelectSeq(allFatigue, LAMBDA f : f.fatigueLevel >= 70 * Unit)
        moderateFatigue ==
            SelectSeq(allFatigue,
                      LAMBDA f : f.fatigueLevel > 40 * Unit /\ f.fatigueLevel < 70 * Unit)
        restNeeded == [i \in 1..Len(highFatigue) |-> percentText(highFatigue[i])]
        intensityAdjustment ==
            IF Len(highFatigue) > 0 THEN "reduce"
            ELSE IF Len(moderateFatigue) > 0 THEN "moderate"
            ELSE "maintain"
    IN  [restNeeded |-> restNeeded,
         intensityAdjustment |-> intensityAdjustment,
         nextExerciseSuggestion |-> getNextExerciseSuggestion(allFatigue)]

\* What getFatigueRecommendations() returns at currentTime.
\* getFatigueRecommendations taking the suggestion from a second snapshot, made half
\* an hour after the one restNeeded and intensityAdjustment come from.
getFatigueRecommendations_TwoSnapshots(mf, currentTime) ==
    LET allFatigue == getAllFatigueLevels(mf, currentTime)
        highFatigue == SelectSeq(allFatigue, LAMBDA f : f.fatigueLevel > 70 * Unit)
        moderateFatigue ==
            SelectSeq(allFatigue,
                      LAMBDA f : f.fatigueLevel > 40 * Unit /\ f.fatigueLevel <= 70 * Unit)
        restNeeded == [i \in 1..Len(highFatigue) |-> percentText(highFatigue[i])]
        intensityAdjustment ==
            IF Len(highFatigue) > 0 THEN "reduce"
            ELSE IF Len(moderateFatigue) > 0 THEN "moderate"
            ELSE "maintain"
    IN  [restNeeded |-> restNeeded,
         intensityAdjustment |-> intensityAdjustment,
         nextExerciseSuggestion |->
             getNextExerciseSuggestion(getAllFatigueLevels(mf, currentTime + 30 * MsPerMinute))]

getFatigueRecommendations(mf, currentTime) ==
    LET allFatigue == getAllFatigueLevels(mf, currentTime)
        highFatigue == SelectSeq(allFatigue, LAMBDA f : f.fatigueLevel > 70 * Unit)
        moderateFatigue ==
            SelectSeq(allFatigue,
                      LAMBDA f : f.fatigueLevel > 40 * Unit /\ f.fatigueLevel <= 70 * Unit)
        restNeeded == [i \in 1..Len(highFatigue) |-> percentText(highFatigue[i])]
        intensityAdjustment ==
            IF Len(highFatigue) > 0 THEN "reduce"
            ELSE IF Len(moderateFatigue) > 0 THEN "moderate"
            ELSE "maintain"
    IN  [restNeeded |-> restNeeded,
         intensityAdjustment |-> intensityAdjustment,
         nextExerciseSuggestion |-> getNextExerciseSuggestion(allFatigue)]

\* ------------------------------------------------------------------ the state machine

\* The exercises getExerciseFatigue is asked about.
Exercises ==
    {[muscleGroup |-> "Chest"],
     [muscleGroup |-> "Chest", targetMuscles |-> <<"Chest", "Legs">>],
     [muscleGroup |-> "Legs", targetMuscles |-> <<"Chest", "chest">>]}

NoCalls ==
    [m \in Keys |->
        [calls |-> 0, volume |-> 0, level |-> 0, time |-> 0, rate |-> 0, first |-> 0,
         overlapped |-> FALSE]]

\* updateFatigue calls since the last reset, over all muscles.
RECURSIVE setsDone(_)
setsDone(mf) == IF mf = << >> THEN 0 ELSE Head(mf).exerciseCount + setsDone(Tail(mf))

\* The callers of updateFatigue.  The method has no suspension point, so in
\* the program a call that has started returns before the next one starts
\* and none is ever found in flight between two calls.
Callers == {1, 2}

NoneInFlight == [c \in Callers |-> [pc |-> "idle"]]

\* An engine used without the workout screen.
NoScreen == [mounted |-> FALSE]

\* new FatigueCalculator()
Init ==
    /\ now = 0
    /\ muscleFatigue = << >>
    /\ workoutStartTime = now
    /\ ret = [op |-> "constructor"]
    /\ recorded = NoCalls
    /\ resets = 0
    /\ inFlight = NoneInFlight
    /\ screen = NoScreen

\* Time passes between two calls.
Tick(d) ==
    /\ now + d <= MaxTime
    /\ now' = now + d
    /\ ret' = [op |-> "none"]
    /\ UNCHANGED <<muscleFatigue, workoutStartTime, recorded, resets, inFlight, screen>>

\* What one call of updateFatigue(factors) at the current time does to the engine.
UpdateFatigueState(factors) ==
    /\ muscleFatigue' = updateFatigue(muscleFatigue, now, factors)
    /\ ret' = [op |-> "updateFatigue", arg |-> factors]
    /\ recorded' =
           [recorded EXCEPT ![factors.muscleGroup] =
               [calls |-> @.calls + 1,
                volume |-> @.volume + factors.exerciseVolume,
                level |-> get(muscleFatigue', factors.muscleGroup).fatigueLevel,
                time |-> now,
                rate |-> get(muscleFatigue', factors.muscleGroup).recoveryRate,
                first |-> IF @.calls = 0
                          THEN Cardinality({k \in Keys : recorded[k].calls > 0}) + 1
                          ELSE @.first,
                overlapped |-> @.overlapped]]

\* One call of updateFatigue(factors) at the current time.
UpdateFatigueCall(factors) ==
    /\ UpdateFatigueState(factors)
    /\ UNCHANGED <<workoutStartTime, now, resets, inFlight, screen>>

UpdateFatigue(factors) ==
    /\ setsDone(muscleFatigue) < MaxSets
    /\ UpdateFatigueCall(factors)

\* calculateFatigueIncrease taking the rest from the muscle's last recorded set
\* and the clock instead of from its input.
CalculateFatigueIncrease_RestFromMap(factors) ==
    LET muscleGroup == factors.muscleGroup
        rested == IF has(muscleFatigue, muscleGroup)
                  THEN (now - get(muscleFatigue, muscleGroup).lastExerciseTime) \div 1000
                  ELSE factors.restTime
    IN  /\ ret' = [op |-> "calculateFatigueIncrease", arg |-> factors,
                   val |-> calculateFatigueIncrease([factors EXCEPT !.restTime = rested])]
        /\ UNCHANGED <<muscleFatigue, workoutStartTime, now, recorded, resets, inFlight, screen>>

CalculateFatigueIncrease(factors) ==
    /\ ret' = [op |-> "calculateFatigueIncrease", arg |-> factors,
               val |-> calculateFatigueIncrease(factors)]
    /\ UNCHANGED <<muscleFatigue, workoutStartTime, now, recorded, resets, inFlight, screen>>

\* getFatigueLevel storing the level it computed (and not the time it computed it at).
GetFatigueLevel_WriteBack(muscleGroup) ==
    /\ ret' = [op |-> "getFatigueLevel", arg |-> muscleGroup,
               val |-> getFatigueLevel(muscleFatigue, now, muscleGroup)]
    /\ muscleFatigue' =
           IF has(muscleFatigue, muscleGroup)
           THEN set(muscleFatigue, muscleGroup,
                    [get(muscleFatigue, muscleGroup) EXCEPT !.fatigueLevel = ret'.val])
           ELSE muscleFatigue
    /\ UNCHANGED <<workoutStartTime, now, recorded, resets, inFlight, screen>>

\* getFatigueLevel storing a state at level 0 for a muscle it does not find.
GetFatigueLevel_CreatesEntry(muscleGroup) ==
    /\ ret' = [op |-> "getFatigueLevel", arg |-> muscleGroup,
               val |-> getFatigueLevel(muscleFatigue, now, muscleGroup)]
    /\ muscleFatigue' =
           IF has(muscleFatigue, muscleGroup) THEN muscleFatigue
           ELSE Append(muscleFatigue,
                       [muscleGroup |-> muscleGroup, fatigueLevel |-> 0,
                        lastExerciseTime |-> now, totalVolume |-> 0,
                        exerciseCount |-> 0, recoveryRate |-> recoveryRateOf(muscleGroup)])
    /\ UNCHANGED <<workoutStartTime, now, recorded, resets, inFlight, screen>>

\* getFatigueLevel letting every muscle recover since the session's start.
GetFatigueLevel_SinceStart(muscleGroup) ==
    /\ ret' = [op |-> "getFatigueLevel", arg |-> muscleGroup,
               val |-> getFatigueLevel(
                           [i \in 1..Len(muscleFatigue) |->
                               [muscleFatigue[i] EXCEPT !.lastExerciseTime = workoutStartTime]],
                           now, muscleGroup)]
    /\ UNCHANGED <<muscleFatigue, workoutStartTime, now, recorded, resets, inFlight, screen>>

GetFatigueLevel(muscleGroup) ==
    /\ ret' = [op |-> "getFatigueLevel", arg |-> muscleGroup,
               val |-> getFatigueLevel(muscleFatigue, now, muscleGroup)]
    /\ UNCHANGED <<muscleFatigue, workoutStartTime, now, recorded, resets, inFlight, screen>>

\* getAllFatigueLevels assigning fatigueLevel on the stored objects instead of on copies.
GetAllFatigueLevels_InPlace ==
    /\ ret' = [op |-> "getAllFatigueLevels",
               val |-> getAllFatigueLevels(muscleFatigue, now)]
    /\ muscleFatigue' = ret'.val
    /\ UNCHANGED <<workoutStartTime, now, recorded, resets, inFlight, screen>>

GetAllFatigueLevels ==
    /\ ret' = [op |-> "getAllFatigueLevels",
               val |-> getAllFatigueLevels(muscleFatigue, now)]
    /\ UNCHANGED <<muscleFatigue, workoutStartTime, now, recorded, resets, inFlight, screen>>

GetExerciseFatigue(exercise) ==
    /\ ret' = [op |-> "getExerciseFatigue", arg |-> exercise,
               val |-> getExerciseFatigue(muscleFatigue, now, exercise)]
    /\ UNCHANGED <<muscleFatigue, workoutStartTime, now, recorded, resets, inFlight, screen>>

GetFatigueRecommendations ==
    /\ ret' = [op |-> "getFatigueRecommendations",
               val |-> getFatigueRecommendations(muscleFatigue, now)]
    /\ UNCHANGED <<muscleFatigue, workoutStartTime, now, recorded, resets, inFlight, screen>>

GetWorkoutDuration ==
    /\ ret' = [op |-> "getWorkoutDuration",
               val |-> getWorkoutDuration(workoutStartTime, now)]
    /\ UNCHANGED <<muscleFatigue, workoutStartTime, now, recorded, resets, inFlight, screen>>

\* resetFatigue re-stamping the start time and leaving the Map alone.
ResetFatigue_NoClear ==
    /\ resets < MaxResets
    /\ resets' = resets + 1
    /\ workoutStartTime' = now
    /\ ret' = [op |-> "resetFatigue"]
    /\ recorded' = NoCalls
    /\ UNCHANGED <<muscleFatigue, now, inFlight, screen>>

ResetFatigue ==
    /\ resets < MaxResets
    /\ resets' = resets + 1
    /\ muscleFatigue' = << >>
    /\ workoutStartTime' = now
    /\ ret' = [op |-> "resetFatigue"]
    /\ recorded' = NoCalls
    /\ UNCHANGED <<now, inFlight, screen>>

Next ==
    \/ \E d \in Ticks : Tick(d)
    \/ \E factors \in SetInputs : UpdateFatigue(factors)
    \/ \E muscleGroup \in Muscles : GetFatigueLevel(muscleGroup)
    \/ GetAllFatigueLevels
    \/ \E exercise \in Exercises : GetExerciseFatigue(exercise)
    \/ GetFatigueRecommendations
    \/ GetWorkoutDuration
    \/ ResetFatigue

Spec == Init /\ [][Next]_vars

\* No quotient of the program is rounded by the model's units in any state of Spec.
ModelExact ==
    /\ InputsOnGrid
    /\ \A exercise \in Exercises : exerciseFatigueExact(muscleFatigue, now, exercise)
    /\ \A i \in 1..Len(muscleFatigue) : muscleFatigue[i].fatigueLevel % (Unit \div FactorScale) = 0

\* A fresh engine on which no call has been made at this value of the clock.
Fresh == muscleFatigue = << >> /\ ret.op \in {"constructor", "none"}

\* The first set of a session.
FirstSet == Fresh /\ \E factors \in FatigueFactors : UpdateFatigue(factors)

\* calculateFatigueIncrease on a fresh engine.
FirstIncrease == Fresh /\ \E factors \in FatigueFactors : CalculateFatigueIncrease(factors)

\* calculateFatigueIncrease, and the first updateFatigue of a fresh engine, on every
\* input of FatigueFactors, one call at each value of the clock.
NextIncrease ==
    \/ \E d \in Ticks : Tick(d)
    \/ FirstIncrease
    \/ FirstSet

SpecIncrease == Init /\ [][NextIncrease]_vars

\* Exercises without targetMuscles, with an empty list, with the primary muscle alone,
\* with the primary muscle among others, and with one muscle listed twice.
TargetedExercises ==
    {[muscleGroup |-> "Chest"],
     [muscleGroup |-> "Chest", targetMuscles |-> << >>],
     [muscleGroup |-> "Chest", targetMuscles |-> <<"Chest">>],
     [muscleGroup |-> "Chest", targetMuscles |-> <<"Chest", "Legs">>],
     [muscleGroup |-> "Legs", targetMuscles |-> <<"Chest", "chest">>],
     [muscleGroup |-> "chest", targetMuscles |-> <<"Legs", "chest", "Legs">>]}

\* Sets, and getExerciseFatigue asked about each of TargetedExercises.
NextExercise ==
    \/ \E d \in Ticks : Tick(d)
    \/ \E factors \in SetInputs : UpdateFatigue(factors)
    \/ \E exercise \in TargetedExercises : GetExerciseFatigue(exercise)

SpecExercise == Init /\ [][NextExercise]_vars

\* The bench press set and the heavy set for every key of Keys.
KeySets == {BenchSet(k) : k \in Keys} \cup {HeavySet(k) : k \in Keys}

\* Sets on every key of Keys, and reads of their levels.
NextKeys ==
    \/ \E d \in Ticks : Tick(d)
    \/ \E factors \in KeySets : UpdateFatigue(factors)
    \/ \E muscleGroup \in Keys : GetFatigueLevel(muscleGroup)

SpecKeys == Init /\ [][NextKeys]_vars

\* The bench press set on Chest with its volume, its duration or its rest negated, and
\* with volume and duration both negated.
NegativeSets ==
    {[BenchSet("Chest") EXCEPT !.exerciseVolume = -1600],
     [BenchSet("Chest") EXCEPT !.exerciseDuration = -60],
     [BenchSet("Chest") EXCEPT !.restTime = -300],
     [BenchSet("Chest") EXCEPT !.exerciseVolume = -1600, !.exerciseDuration = -60]}

\* Sets with and without negative numbers, and reads of the levels.
NextNegative ==
    \/ \E d \in Ticks : Tick(d)
    \/ \E factors \in SetInputs \cup NegativeSets : UpdateFatigue(factors)
    \/ \E muscleGroup \in Muscles : GetFatigueLevel(muscleGroup)

SpecNegative == Init /\ [][NextNegative]_vars

\* How far behind the newest lastExerciseTime the clock is set back at most: 2.5
\* minutes.
MaxSkew == 150000

\* The system clock is set back by d between two calls; Date.now() is not monotonic.
ClockSetBack(d) ==
    /\ now - d >= 0
    /\ \A i \in 1..Len(muscleFatigue) :
           muscleFatigue[i].lastExerciseTime - (now - d) <= MaxSkew
    /\ now' = now - d
    /\ ret' = [op |-> "none"]
    /\ UNCHANGED <<muscleFatigue, workoutStartTime, recorded, resets, inFlight, screen>>

\* Sets and reads under a clock that goes forward and is now and then set back.
NextSkew ==
    \/ \E d \in Ticks : Tick(d)
    \/ \E d \in Ticks : ClockSetBack(d)
    \/ \E factors \in SetInputs : UpdateFatigue(factors)
    \/ \E muscleGroup \in Muscles : GetFatigueLevel(muscleGroup)
    \/ GetAllFatigueLevels
    \/ \E exercise \in Exercises : GetExerciseFatigue(exercise)

SpecSkew == Init /\ [][NextSkew]_vars

\* Sets, resets and requests for the duration of the workout.
NextDuration ==
    \/ \E d \in Ticks : Tick(d)
    \/ \E factors \in SetInputs : UpdateFatigue(factors)
    \/ GetWorkoutDuration
    \/ ResetFatigue

SpecDuration == Init /\ [][NextDuration]_vars

\* The end of a session of ten minutes.
MaxSessionTime == 600000

\* The steps of the clock in that session: 3.75 and 6.25 minutes.
SessionTicks == {225000, 375000}

\* Time passes between two calls of the session.
SessionTick(d) ==
    /\ now + d <= MaxSessionTime
    /\ now' = now + d
    /\ ret' = [op |-> "none"]
    /\ UNCHANGED <<muscleFatigue, workoutStartTime, recorded, resets, inFlight, screen>>

\* The sets of that session.
MaxSessionSets == 4

SessionSet(factors) ==
    /\ setsDone(muscleFatigue) < MaxSessionSets
    /\ UpdateFatigueCall(factors)

\* A session of sets and of requests for recommendations.
NextSession ==
    \/ \E d \in SessionTicks : SessionTick(d)
    \/ \E factors \in SetInputs : SessionSet(factors)
    \/ GetFatigueRecommendations

SpecSession == Init /\ [][NextSession]_vars

\* The bench press set after each of the rests, and the sets of SetInputs.
PureInputs == SetInputs \cup {[BenchSet("Chest") EXCEPT !.restTime = r] : r \in Rests}

\* calculateFatigueIncrease called in every state a session of sets and a
\* reset leads to, at every value of the clock.
NextPure ==
    \/ \E d \in Ticks : Tick(d)
    \/ \E factors \in SetInputs : UpdateFatigue(factors)
    \/ \E factors \in PureInputs : CalculateFatigueIncrease(factors)
    \/ ResetFatigue

SpecPure == Init /\ [][NextPure]_vars

\* getFatigueRecommendations asked for in every state a session of sets and a
\* reset leads to.
NextRecommend ==
    \/ \E d \in Ticks : Tick(d)
    \/ \E factors \in SetInputs : UpdateFatigue(factors)
    \/ GetFatigueRecommendations
    \/ ResetFatigue

SpecRecommend == Init /\ [][NextRecommend]_vars

\* An hour of the clock in steps of five minutes, the sets made in its first ten
\* minutes: every muscle is left alone for 50 minutes or more before the hour ends.
MaxRecoveryTime == 3600000

LastSetTime == 600000

MaxRecoverySets == 2

RecoveryTicks == {5 * MsPerMinute}

RecoveryTick(d) ==
    /\ now + d <= MaxRecoveryTime
    /\ now' = now + d
    /\ ret' = [op |-> "none"]
    /\ UNCHANGED <<muscleFatigue, workoutStartTime, recorded, resets, inFlight, screen>>

RecoverySet(factors) ==
    /\ setsDone(muscleFatigue) < MaxRecoverySets
    /\ now <= LastSetTime
    /\ UpdateFatigueCall(factors)

NextRecovery ==
    \/ \E d \in RecoveryTicks : RecoveryTick(d)
    \/ \E factors \in SetInputs : RecoverySet(factors)
    \/ \E muscleGroup \in Muscles : GetFatigueLevel(muscleGroup)
    \/ GetFatigueRecommendations
    \/ ResetFatigue

\* Date.now() does not stand still: the clock's step is taken again and again.
SpecRecovery ==
    /\ Init
    /\ [][NextRecovery]_vars
    /\ WF_vars(\E d \in RecoveryTicks : RecoveryTick(d))

\* updateFatigue taken apart into the three steps its body is made of, for
\* callers whose steps may interleave: get (lines 113-127), modify (129-145)
\* and set (147).  `fatigue` is a reference: a caller that found the muscle in
\* the Map holds the very object the Map stores (inMap), and what it modifies
\* is seen through the Map at once; a caller that found nothing holds an
\* object of its own until its set.
MaxInterleaved == 3

InterleavedSets == {BenchSet("Chest"), HeavySet("Chest"), HeavySet("Legs")}

onKey(c, muscleGroup) ==
    /\ inFlight[c].pc # "idle"
    /\ inFlight[c].factors.muscleGroup = muscleGroup

started == LET n[m \in SUBSET Keys] ==
                   IF m = {} THEN 0
                   ELSE LET k == CHOOSE k \in m : TRUE
                        IN  recorded[k].calls + n[m \ {k}]
           IN  n[Keys] + Cardinality({c \in Callers : inFlight[c].pc # "idle"})

\* lines 113-127: const currentTime = Date.now(); let fatigue = get(...); if (!fatigue) {...}
UpdateFatigue_Get(c, factors) ==
    LET muscleGroup == factors.muscleGroup
        found == has(muscleFatigue, muscleGroup)
    IN  /\ inFlight[c].pc = "idle"
        /\ started < MaxInterleaved
        /\ inFlight' =
               [inFlight EXCEPT ![c] =
                   [pc |-> "read", factors |-> factors, currentTime |-> now,
                    inMap |-> found,
                    fatigue |->
                        IF found THEN muscleGroup
                        ELSE [muscleGroup |-> muscleGroup, fatigueLevel |-> 0,
                              lastExerciseTime |-> now, totalVolume |-> 0,
                              exerciseCount |-> 0,
                              recoveryRate |-> recoveryRateOf(muscleGroup)]]]
        /\ recorded' =
               [recorded EXCEPT ![muscleGroup].overlapped =
                   @ \/ \E d \in Callers \ {c} : onKey(d, muscleGroup)]
        /\ ret' = [op |-> "none"]
        /\ UNCHANGED <<muscleFatigue, workoutStartTime, now, resets, screen>>

\* lines 129-145, on the object the caller holds
UpdateFatigue_Modify(c) ==
    LET call == inFlight[c]
    IN  /\ call.pc = "read"
        /\ IF call.inMap
           THEN /\ muscleFatigue' = updateFatigue(muscleFatigue, call.currentTime, call.factors)
                /\ inFlight' = [inFlight EXCEPT ![c].pc = "modified"]
           ELSE /\ muscleFatigue' = muscleFatigue
                /\ inFlight' =
                       [inFlight EXCEPT
                           ![c].pc = "modified",
                           ![c].fatigue =
                               get(updateFatigue(<<call.fatigue>>, call.currentTime, call.factors),
                                   call.factors.muscleGroup)]
        /\ ret' = [op |-> "none"]
        /\ UNCHANGED <<workoutStartTime, now, recorded, resets, screen>>

\* The set of line 147 that puts nothing into the Map.
UpdateFatigue_Set_Dropped(c) ==
    LET call == inFlight[c]
        muscleGroup == call.factors.muscleGroup
    IN  /\ call.pc = "modified"
        /\ muscleFatigue' = muscleFatigue
        /\ inFlight' = [inFlight EXCEPT ![c] = [pc |-> "idle"]]
        /\ recorded' =
               [recorded EXCEPT ![muscleGroup] =
                   [@ EXCEPT !.calls = @ + 1,
                             !.volume = @ + call.factors.exerciseVolume]]
        /\ ret' = [op |-> "updateFatigue", arg |-> call.factors]
        /\ UNCHANGED <<workoutStartTime, now, resets, screen>>

\* line 147: this.muscleFatigue.set(muscleGroup, fatigue), and the return.
\* An object of the caller's own takes the place of the one the Map stored,
\* which the callers that hold it keep as an object outside the Map.
UpdateFatigue_Set(c) ==
    LET call == inFlight[c]
        muscleGroup == call.factors.muscleGroup
    IN  /\ call.pc = "modified"
        /\ muscleFatigue' =
               set(muscleFatigue, muscleGroup,
                   IF call.inMap THEN get(muscleFatigue, muscleGroup) ELSE call.fatigue)
        /\ inFlight' =
               [d \in Callers |->
                   IF d = c THEN [pc |-> "idle"]
                   ELSE IF onKey(d, muscleGroup) /\ inFlight[d].inMap /\ ~call.inMap
                        THEN [inFlight[d] EXCEPT
                                 !.inMap = FALSE,
                                 !.fatigue = get(muscleFatigue, muscleGroup)]
                        ELSE inFlight[d]]
        /\ recorded' =
               [recorded EXCEPT ![muscleGroup] =
                   [@ EXCEPT !.calls = @ + 1,
                             !.volume = @ + call.factors.exerciseVolume,
                             !.level = get(muscleFatigue', muscleGroup).fatigueLevel,
                             !.time = call.currentTime,
                             !.rate = get(muscleFatigue', muscleGroup).recoveryRate,
                             !.first = IF recorded[muscleGroup].calls = 0
                                       THEN Cardinality({k \in Keys : recorded[k].calls > 0}) + 1
                                       ELSE @]]
        /\ ret' = [op |-> "updateFatigue", arg |-> call.factors]
        /\ UNCHANGED <<workoutStartTime, now, resets, screen>>

\* Two callers of updateFatigue whose steps interleave in every order, and
\* time passing between the steps.
NextInterleaved ==
    \/ \E d \in Ticks : Tick(d)
    \/ \E c \in Callers, factors \in InterleavedSets : UpdateFatigue_Get(c, factors)
    \/ \E c \in Callers : UpdateFatigue_Modify(c)
    \/ \E c \in Callers : UpdateFatigue_Set(c)

SpecInterleaved == Init /\ [][NextInterleaved]_vars

\* ------------------------------------------------------------------ properties

QueryOps ==
    {"getFatigueLevel", "getAllFatigueLevels", "getExerciseFatigue",
     "getFatigueRecommendations", "getWorkoutDuration"}

InRange(level) == 0 <= level /\ level <= 100 * Unit

\* C1: with inputs in their documented domains and a clock that never goes back, every
\* stored fatigueLevel, and every value getFatigueLevel and getAllFatigueLevels return
\* (or would return now), lies in [0, 100].
C1_LevelsInRange ==
    /\ \A i \in 1..Len(muscleFatigue) : InRange(muscleFatigue[i].fatigueLevel)
    /\ \A m \in Muscles : InRange(getFatigueLevel(muscleFatigue, now, m))
    /\ \A i \in 1..Len(muscleFatigue) :
           InRange(getAllFatigueLevels(muscleFatigue, now)[i].fatigueLevel)
    /\ ret.op = "getFatigueLevel" => InRange(ret.val)
    /\ ret.op = "getAllFatigueLevels" =>
           \A i \in 1..Len(ret.val) : InRange(ret.val[i].fatigueLevel)

\* A third set on a muscle whose level was at 100 before it: the level is 100, not
\* more, and a later read has decayed from there.
C1_Witness ==
    \E m \in Muscles :
        /\ recorded[m].calls = 3
        /\ has(muscleFatigue, m)
        /\ get(muscleFatigue, m).fatigueLevel = 100 * Unit
        /\ ret.op = "getFatigueLevel" /\ ret.arg = m
        /\ ret.val < 100 * Unit /\ ret.val > 0

\* The recovery curve of muscle m from its last updateFatigue, at time t.
CurveFromLastSet(rec, m, t) ==
    Max(0, rec[m].level - (t - rec[m].time) * rec[m].rate)

\* C2: getFatigueLevel returns, however many reads went before, the value of the one
\* recovery curve that starts at the level and time of the muscle's last updateFatigue;
\* two consecutive reads of a muscle at the same time return the same value.
C2_ReadsOnOneCurve ==
    [][/\ (ret'.op = "getFatigueLevel" /\ recorded'[ret'.arg].calls > 0) =>
              ret'.val = CurveFromLastSet(recorded', ret'.arg, now')
       /\ (ret.op = "getFatigueLevel" /\ ret'.op = "getFatigueLevel"
              /\ ret'.arg = ret.arg /\ now' = now) => ret'.val = ret.val
      ]_vars

\* A read part of the way down the curve.
C2_Witness ==
    /\ ret.op = "getFatigueLevel"
    /\ recorded[ret.arg].calls > 0
    /\ now > recorded[ret.arg].time
    /\ ret.val > 0 /\ ret.val < recorded[ret.arg].level

\* C3: a query leaves the Map and workoutStartTime as they were, and an updateFatigue
\* on a recorded muscle therefore starts from the level, time and rate its previous
\* updateFatigue left, whatever was queried in between.
C3_QueriesChangeNothing ==
    [][/\ ret'.op \in QueryOps =>
              /\ muscleFatigue' = muscleFatigue
              /\ workoutStartTime' = workoutStartTime
       /\ (ret'.op = "updateFatigue" /\ recorded[ret'.arg.muscleGroup].calls > 0) =>
              get(muscleFatigue', ret'.arg.muscleGroup).fatigueLevel =
                  Min(100 * Unit,
                      CurveFromLastSet(recorded, ret'.arg.muscleGroup, now)
                          + calculateFatigueIncrease(ret'.arg))
      ]_vars

\* Recommendations asked for while two muscles are recorded and one is part recovered.
C3_Witness ==
    /\ ret.op = "getFatigueRecommendations"
    /\ Len(muscleFatigue) >= 2
    /\ \E i \in 1..Len(muscleFatigue) :
           /\ ret.val.restNeeded = << >>
           /\ getAllFatigueLevels(muscleFatigue, now)[i].fatigueLevel > 0
           /\ getAllFatigueLevels(muscleFatigue, now)[i].fatigueLevel
                  < muscleFatigue[i].fatigueLevel

\* C4: across every step that is not an updateFatigue, getFatigueLevel of every muscle
\* does not increase; and it is exactly 0 whenever the recovery since the last set is
\* at least the stored level.
C4_DecayMonotone ==
    [][/\ ret'.op # "updateFatigue" =>
              \A m \in Muscles :
                  getFatigueLevel(muscleFatigue', now', m)
                      <= getFatigueLevel(muscleFatigue, now, m)
       /\ \A i \in 1..Len(muscleFatigue') :
              LET f == muscleFatigue'[i] IN
              (now' - f.lastExerciseTime) * f.recoveryRate >= f.fatigueLevel =>
                  getFatigueLevel(muscleFatigue', now', f.muscleGroup) = 0
       /\ ret'.op = "getFatigueLevel" =>
              ret'.val = getFatigueLevel(muscleFatigue', now', ret'.arg)
      ]_vars

\* A read that returns 0 for a muscle whose recovery has overshot its stored level.
C4_Witness ==
    /\ ret.op = "getFatigueLevel" /\ ret.val = 0
    /\ has(muscleFatigue, ret.arg)
    /\ LET f == get(muscleFatigue, ret.arg) IN
           /\ f.fatigueLevel > 0
           /\ (now - f.lastExerciseTime) * f.recoveryRate > f.fatigueLevel

\* C5: one updateFatigue raises a muscle's level by at most 50: the level it stores is
\* at most 50 above what getFatigueLevel returned at the same time just before it, and
\* the increase calculateFatigueIncrease computes for the set is at most 50.
C5_PerSetCap ==
    [][ret'.op = "updateFatigue" =>
          LET m == ret'.arg.muscleGroup IN
          /\ get(muscleFatigue', m).fatigueLevel - getFatigueLevel(muscleFatigue, now, m)
                 <= 50 * Unit
          /\ getFatigueLevel(muscleFatigue', now', m)
                 - getFatigueLevel(muscleFatigue, now, m) <= 50 * Unit
          /\ calculateFatigueIncrease(ret'.arg) <= 50 * Unit
      ]_vars

\* The set with intensity 1, volume 100000, duration 600 and rest 0 has raised a
\* recorded, part recovered Chest by exactly 50.
C5_Witness ==
    /\ ret.op = "updateFatigue" /\ ret.arg = HeavySet("Chest")
    /\ recorded["Chest"].calls = 2
    /\ get(muscleFatigue, "Chest").fatigueLevel > 50 * Unit
    /\ get(muscleFatigue, "Chest").fatigueLevel < 100 * Unit

\* C6: after a resetFatigue and until the next updateFatigue the Map is empty,
\* getAllFatigueLevels returns the empty sequence and getFatigueLevel returns 0 for
\* every muscle; the first set recorded for a muscle after the reset leaves it with
\* exerciseCount 1, the set's volume and the set's increase alone.
C6_ResetClears ==
    resets > 0 =>
        /\ \A m \in Muscles :
               recorded[m].calls = 0 =>
                   /\ ~has(muscleFatigue, m)
                   /\ getFatigueLevel(muscleFatigue, now, m) = 0
        /\ (\A m \in Muscles : recorded[m].calls = 0) =>
               /\ muscleFatigue = << >>
               /\ getAllFatigueLevels(muscleFatigue, now) = << >>
               /\ ret.op = "getAllFatigueLevels" => ret.val = << >>
               /\ ret.op = "getFatigueLevel" => ret.val = 0
        /\ (ret.op = "updateFatigue" /\ recorded[ret.arg.muscleGroup].calls = 1) =>
               LET f == get(muscleFatigue, ret.arg.muscleGroup) IN
               /\ f.exerciseCount = 1
               /\ f.totalVolume = ret.arg.exerciseVolume
               /\ f.fatigueLevel = calculateFatigueIncrease(ret.arg)

\* After a reset made later than the construction, a muscle is recorded again while
\* another one is still unrecorded.
C6_Witness ==
    /\ resets = 1 /\ workoutStartTime > 0
    /\ ret.op = "updateFatigue"
    /\ recorded[ret.arg.muscleGroup].calls = 1
    /\ Len(muscleFatigue) = 1
    /\ muscleFatigue[1].exerciseCount = 1

\* C7: updateFatigue on a muscle with a state (L, t, r, c, V) leaves
\* fatigueLevel = min(100, max(0, L - ((now - t) / 60000) * r) + increase),
\* lastExerciseTime = now, exerciseCount = c + 1, totalVolume = V + volume, the other
\* fields and the other muscles as they were; getFatigueLevel at the same now returns
\* the new level.
C7_UpdateExisting ==
    [][(ret'.op = "updateFatigue" /\ has(muscleFatigue, ret'.arg.muscleGroup)) =>
          LET m == ret'.arg.muscleGroup
              old == get(muscleFatigue, m)
              new == get(muscleFatigue', m)
              decayed ==
                  Max(0, old.fatigueLevel - (now - old.lastExerciseTime) * old.recoveryRate)
          IN  /\ new.fatigueLevel =
                     Min(100 * Unit, decayed + calculateFatigueIncrease(ret'.arg))
              /\ new.lastExerciseTime = now
              /\ new.exerciseCount = old.exerciseCount + 1
              /\ new.totalVolume = old.totalVolume + ret'.arg.exerciseVolume
              /\ new.recoveryRate = old.recoveryRate /\ new.muscleGroup = m
              /\ Len(muscleFatigue') = Len(muscleFatigue)
              /\ getFatigueLevel(muscleFatigue', now', m) = new.fatigueLevel
      ]_vars

\* A second heavy Chest set 2.5 minutes after the first: 50 - 2.5 * 2.5 + 50 = 93.75.
C7_Witness ==
    /\ ret.op = "updateFatigue" /\ ret.arg = HeavySet("Chest")
    /\ recorded["Chest"].calls = 2
    /\ get(muscleFatigue, "Chest").fatigueLevel = 9375 * (Unit \div 100)
    /\ get(muscleFatigue, "Chest").exerciseCount = 2

\* C8: the first updateFatigue for a muscle without a state leaves a state with
\* fatigueLevel equal to the computed increase (at most 50), lastExerciseTime = now,
\* exerciseCount 1, totalVolume the set's volume and the muscle's recovery rate.
C8_FirstSet ==
    [][(ret'.op = "updateFatigue" /\ ~has(muscleFatigue, ret'.arg.muscleGroup)) =>
          LET m == ret'.arg.muscleGroup IN
          /\ has(muscleFatigue', m)
          /\ muscleFatigue' =
                 Append(muscleFatigue,
                        [muscleGroup |-> m,
                         fatigueLevel |-> calculateFatigueIncrease(ret'.arg),
                         lastExerciseTime |-> now,
                         totalVolume |-> ret'.arg.exerciseVolume,
                         exerciseCount |-> 1,
                         recoveryRate |-> recoveryRateOf(m)])
          /\ get(muscleFatigue', m).fatigueLevel <= 50 * Unit
      ]_vars

\* A first set, made after the clock has advanced, whose increase met the cap of 50.
C8_Witness ==
    /\ ret.op = "updateFatigue" /\ now > 0
    /\ recorded[ret.arg.muscleGroup].calls = 1
    /\ get(muscleFatigue, ret.arg.muscleGroup).fatigueLevel = 50 * Unit
    /\ get(muscleFatigue, ret.arg.muscleGroup).lastExerciseTime = now

\* min(50, baseRate * difficultyMultiplier * min(volume / 1000, 2.0) * (intensity * 1.5)
\*          * min(duration / 60, 1.5) * max(1 - rest / 300, 0.5)), in Units: the six
\* factors are taken in hundredths of a volume, tenths of an intensity and half
\* minutes, which leaves a denominator of 10 * 10 * 20 * 2 * 10.
IncreaseFormula(f) ==
    LET base == IF f.muscleGroup \in DOMAIN MUSCLE_FATIGUE_RATES
                THEN MUSCLE_FATIGUE_RATES[f.muscleGroup] ELSE 10
        mult == CASE f.exerciseDifficulty = "beginner" -> 8
                  [] f.exerciseDifficulty = "intermediate" -> 10
                  [] f.exerciseDifficulty = "advanced" -> 13
        vol == IF f.exerciseVolume >= 2000 THEN 20 ELSE f.exerciseVolume \div 100
        int == 3 * f.exerciseIntensity
        dur == IF f.exerciseDuration >= 90 THEN 3 ELSE f.exerciseDuration \div 30
        rest == IF f.restTime >= 150 THEN 5 ELSE (300 - f.restTime) \div 30
        raw == base * mult * vol * int * dur * rest * (Unit \div 40000)
    IN  IF raw > 50 * Unit THEN 50 * Unit ELSE raw

\* C9: calculateFatigueIncrease returns the formula's value for every input, and a
\* first Chest, intermediate set of volume 1600, 60 s, rest 120 s and intensity 0.8
\* leaves the Chest level at 17.28.
C9_IncreaseFormula ==
    /\ ret.op = "calculateFatigueIncrease" => ret.val = IncreaseFormula(ret.arg)
    /\ ret.op = "updateFatigue" =>
           get(muscleFatigue, ret.arg.muscleGroup).fatigueLevel = IncreaseFormula(ret.arg)
    /\ (ret.op = "updateFatigue" /\ ret.arg = BenchSet("Chest")) =>
           get(muscleFatigue, "Chest").fatigueLevel = 1728 * (Unit \div 100)

\* The bench press set recorded first on a fresh engine: Chest is at 17.28.
C9_Witness ==
    /\ ret.op = "updateFatigue" /\ ret.arg = BenchSet("Chest")
    /\ muscleFatigue[1].muscleGroup = "Chest"
    /\ muscleFatigue[1].fatigueLevel = 1728 * (Unit \div 100)
    /\ muscleFatigue[1].exerciseCount = 1

\* max(0, L - e * recoveryRate) in Units, e the minutes from f.lastExerciseTime to t,
\* counted in half minutes (every step of the clock is a whole number of them).
RecoveryFormula(f, t) ==
    LET halfMinutes == (t - f.lastExerciseTime) \div (MsPerMinute \div 2)
        recovery == halfMinutes * f.recoveryRate * (Unit \div 20)
    IN  IF f.fatigueLevel > recovery THEN f.fatigueLevel - recovery ELSE 0

\* C10: a query e minutes after a muscle's lastExerciseTime returns
\* max(0, L - e * recoveryRate) from getFatigueLevel and in the muscle's entry of
\* getAllFatigueLevels; with Chest stored at 17.28 and e = 5 both return 4.78.
C10_Recovery ==
    /\ (ret.op = "getFatigueLevel" /\ has(muscleFatigue, ret.arg)) =>
           ret.val = RecoveryFormula(get(muscleFatigue, ret.arg), now)
    /\ ret.op = "getAllFatigueLevels" =>
           /\ Len(ret.val) = Len(muscleFatigue)
           /\ \A i \in 1..Len(ret.val) :
                  ret.val[i].fatigueLevel = RecoveryFormula(muscleFatigue[i], now)
    /\ \A i \in 1..Len(muscleFatigue) :
           LET f == muscleFatigue[i] IN
           (/\ f.muscleGroup = "Chest"
            /\ f.fatigueLevel = 1728 * (Unit \div 100)
            /\ now - f.lastExerciseTime = 5 * MsPerMinute) =>
               /\ (ret.op = "getFatigueLevel" /\ ret.arg = "Chest") =>
                      ret.val = 478 * (Unit \div 100)
               /\ ret.op = "getAllFatigueLevels" =>
                      ret.val[i].fatigueLevel = 478 * (Unit \div 100)

\* getAllFatigueLevels asked 5 minutes after the bench press set: Chest is at 4.78.
C10_Witness ==
    /\ ret.op = "getAllFatigueLevels"
    /\ \E i \in 1..Len(muscleFatigue) :
           /\ muscleFatigue[i].muscleGroup = "Chest"
           /\ muscleFatigue[i].fatigueLevel = 1728 * (Unit \div 100)
           /\ now - muscleFatigue[i].lastExerciseTime = 5 * MsPerMinute
           /\ ret.val[i].fatigueLevel = 478 * (Unit \div 100)

\* The muscles recorded since the last reset, and the level each one has now on the
\* recovery curve of its last updateFatigue.
RecordedMuscles == {m \in Muscles : recorded[m].calls > 0}

CurrentLevel(m) == CurveFromLastSet(recorded, m, now)

\* C11: intensityAdjustment is "reduce" exactly when some recorded muscle is above 70
\* now; otherwise "moderate" exactly when some recorded muscle is above 40 and at most
\* 70 (a level of exactly 70 counts, a level of exactly 40 does not); otherwise
\* "maintain".
C11_IntensityAdjustment ==
    ret.op = "getFatigueRecommendations" =>
        LET adj == ret.val.intensityAdjustment
            someHigh == \E m \in RecordedMuscles : CurrentLevel(m) > 70 * Unit
            someModerate ==
                \E m \in RecordedMuscles :
                    CurrentLevel(m) > 40 * Unit /\ CurrentLevel(m) <= 70 * Unit
        IN  /\ adj \in {"reduce", "moderate", "maintain"}
            /\ adj = "reduce" <=> someHigh
            /\ adj = "moderate" <=> (~someHigh /\ someModerate)
            /\ adj = "maintain" <=> (~someHigh /\ ~someModerate)
            /\ (\A m \in RecordedMuscles : CurrentLevel(m) <= 70 * Unit)
                   /\ (\E m \in RecordedMuscles : CurrentLevel(m) = 70 * Unit)
                   => adj = "moderate"
            /\ (\A m \in RecordedMuscles : CurrentLevel(m) <= 40 * Unit)
                   => adj = "maintain"

\* Recommendations asked for with Legs recovered from 90 to exactly 70 and "chest"
\* recovered from 45 to exactly 40: the answer is "moderate".
C11_Witness ==
    /\ ret.op = "getFatigueRecommendations"
    /\ RecordedMuscles = {"Legs", "chest"}
    /\ CurrentLevel("Legs") = 70 * Unit
    /\ CurrentLevel("chest") = 40 * Unit
    /\ ret.val.intensityAdjustment = "moderate"

\* The text "{m} ({n}% fatigue)" with n the whole number nearest to level, halves
\* upwards.
IsPercentText(text, m, level) ==
    \E n \in 0..100 :
        /\ (2 * n - 1) * Unit <= 2 * level
        /\ 2 * level < (2 * n + 1) * Unit
        /\ text = m \o " (" \o ToString(n) \o "% fatigue)"

\* C12: restNeeded holds exactly one entry for every recorded muscle whose current
\* level is above 70 and none for any other muscle, each one the muscle's name with its
\* rounded percentage; with Chest at 75 and Legs at 20 it is <<"Chest (75% fatigue)">>,
\* intensityAdjustment is "reduce" and the suggestion names Legs.
C12_RestNeeded ==
    ret.op = "getFatigueRecommendations" =>
        LET restNeeded == ret.val.restNeeded
            high == {m \in RecordedMuscles : CurrentLevel(m) > 70 * Unit}
        IN  /\ Len(restNeeded) = Cardinality(high)
            /\ \A m \in high :
                   \E i \in 1..Len(restNeeded) :
                       IsPercentText(restNeeded[i], m, CurrentLevel(m))
            /\ \A i \in 1..Len(restNeeded) :
                   \E m \in high : IsPercentText(restNeeded[i], m, CurrentLevel(m))
            /\ (/\ RecordedMuscles = {"Chest", "Legs"}
                /\ CurrentLevel("Chest") = 75 * Unit
                /\ CurrentLevel("Legs") = 20 * Unit) =>
                   /\ restNeeded = <<"Chest (75% fatigue)">>
                   /\ ret.val.intensityAdjustment = "reduce"
                   /\ ret.val.nextExerciseSuggestion
                          = "Consider targeting Legs (20% fatigue)"

\* Recommendations asked for ten minutes after two heavy Chest sets and 6.25 minutes
\* after a heavy Legs set: Chest is at 75 and Legs at 20.
C12_Witness ==
    /\ ret.op = "getFatigueRecommendations"
    /\ RecordedMuscles = {"Chest", "Legs"}
    /\ CurrentLevel("Chest") = 75 * Unit
    /\ CurrentLevel("Legs") = 20 * Unit
    /\ ret.val.restNeeded = <<"Chest (75% fatigue)">>

\* The recorded muscles that are below 30 now.
LowMuscles == {m \in RecordedMuscles : CurrentLevel(m) < 30 * Unit}

\* The muscles of LowMuscles with the least level.
LeastMuscles == {m \in LowMuscles : \A k \in LowMuscles : CurrentLevel(m) <= CurrentLevel(k)}

\* C13: nextExerciseSuggestion names, with its rounded percentage, a recorded muscle
\* whose level is the least among the recorded muscles below 30; when no recorded
\* muscle is below 30 it is the fixed text that advises a different muscle group or a
\* longer rest.
C13_NextSuggestion ==
    ret.op = "getFatigueRecommendations" =>
        LET suggestion == ret.val.nextExerciseSuggestion IN
        IF LowMuscles = {}
        THEN suggestion = "Consider a different muscle group or take a longer rest"
        ELSE \E m \in LeastMuscles :
                 \E n \in 0..30 :
                     /\ IsPercentText(m \o " (" \o ToString(n) \o "% fatigue)",
                                      m, CurrentLevel(m))
                     /\ suggestion = "Consider targeting " \o m
                                         \o " (" \o ToString(n) \o "% fatigue)"

\* "chest" was recorded before Legs and is at 25 while Legs is at 20: Legs is named.
C13_Witness ==
    /\ ret.op = "getFatigueRecommendations"
    /\ RecordedMuscles = {"chest", "Legs"}
    /\ recorded["chest"].first = 1 /\ recorded["Legs"].first = 2
    /\ CurrentLevel("chest") = 25 * Unit
    /\ CurrentLevel("Legs") = 20 * Unit
    /\ ret.val.nextExerciseSuggestion = "Consider targeting Legs (20% fatigue)"

\* C14: when several recorded muscles share the least level below 30, the suggestion
\* names the one of them that was recorded first since the last reset.
C14_TieBreak ==
    (ret.op = "getFatigueRecommendations" /\ Cardinality(LeastMuscles) > 1) =>
        \E m \in LeastMuscles :
            /\ \A k \in LeastMuscles : recorded[m].first <= recorded[k].first
            /\ \E n \in 0..30 :
                   ret.val.nextExerciseSuggestion =
                       "Consider targeting " \o m \o " (" \o ToString(n) \o "% fatigue)"

\* Chest has recovered from 50 and "chest" from 45, both to 25 and below every other
\* recorded muscle; "chest" was recorded first and is the one named.
C14_Witness ==
    /\ ret.op = "getFatigueRecommendations"
    /\ LeastMuscles = {"Chest", "chest"}
    /\ CurrentLevel("Chest") = 25 * Unit
    /\ recorded["chest"].first < recorded["Chest"].first
    /\ ret.val.nextExerciseSuggestion = "Consider targeting chest (25% fatigue)"

\* C15: getAllFatigueLevels returns one entry for each recorded muscle and nothing
\* else, the entry of the k-th muscle recorded since the last reset in position k
\* however often it was updated afterwards; the entry's fatigueLevel is the muscle's
\* level now, its other fields are the stored ones.
C15_AllLevels ==
    ret.op = "getAllFatigueLevels" =>
        /\ Len(ret.val) = Cardinality(RecordedMuscles)
        /\ \A m \in RecordedMuscles :
               /\ recorded[m].first \in 1..Len(ret.val)
               /\ LET entry == ret.val[recorded[m].first]
                      stored == get(muscleFatigue, m)
                  IN  /\ entry.muscleGroup = m
                      /\ entry.fatigueLevel = CurrentLevel(m)
                      /\ entry.fatigueLevel
                             = Max(0, stored.fatigueLevel
                                          - (now - stored.lastExerciseTime)
                                                * stored.recoveryRate)
                      /\ entry.lastExerciseTime = stored.lastExerciseTime
                      /\ entry.lastExerciseTime = recorded[m].time
                      /\ entry.totalVolume = stored.totalVolume
                      /\ entry.totalVolume = recorded[m].volume
                      /\ entry.exerciseCount = stored.exerciseCount
                      /\ entry.exerciseCount = recorded[m].calls
                      /\ entry.recoveryRate = stored.recoveryRate
                      /\ DOMAIN entry = DOMAIN stored

\* The muscle recorded first was updated again after the second one was recorded, and
\* is still the first entry; its level has decayed since.
C15_Witness ==
    /\ ret.op = "getAllFatigueLevels"
    /\ Len(ret.val) = 2
    /\ ret.val[1].exerciseCount = 2
    /\ ret.val[1].lastExerciseTime > ret.val[2].lastExerciseTime
    /\ ret.val[1].fatigueLevel < muscleFatigue[1].fatigueLevel
    /\ recorded[ret.val[1].muscleGroup].first = 1

\* The level of muscle m now: 0 for a muscle that is not recorded.
LevelNow(m) == IF m \in RecordedMuscles THEN CurrentLevel(m) ELSE 0

\* C16: getExerciseFatigue returns as primary the level of exercise.muscleGroup now, as
\* secondary the mean of the levels now of the entries of targetMuscles other than
\* muscleGroup (0 when there is no such entry, the list being absent, empty or made of
\* muscleGroup alone), an unrecorded muscle counting as 0, and as overall
\* 0.7 * primary + 0.3 * secondary.  The three numbers are held in quarters of a Unit.
C16_ExerciseFatigue ==
    ret.op = "getExerciseFatigue" =>
        LET exercise == ret.arg
            listed == IF "targetMuscles" \in DOMAIN exercise
                      THEN exercise.targetMuscles ELSE << >>
            others == {i \in 1..Len(listed) : listed[i] # exercise.muscleGroup}
            sum[i \in 0..Len(listed)] ==
                IF i = 0 THEN 0
                ELSE sum[i - 1] + (IF i \in others THEN LevelNow(listed[i]) ELSE 0)
            primary == ret.val.primaryFatigue
            secondary == ret.val.secondaryFatigue
            overall == ret.val.overallFatigue
        IN  /\ primary = 4 * LevelNow(exercise.muscleGroup)
            /\ others = {} => secondary = 0
            /\ others # {} => Cardinality(others) * secondary = 4 * sum[Len(listed)]
            /\ 10 * (overall - primary) = 3 * (secondary - primary)

\* Asked about "chest" with targets Legs, "chest", Legs while "chest" and Legs are
\* both recorded and part recovered: secondary is the level of Legs, overall lies
\* strictly between the two.
C16_Witness ==
    /\ ret.op = "getExerciseFatigue"
    /\ ret.arg = [muscleGroup |-> "chest", targetMuscles |-> <<"Legs", "chest", "Legs">>]
    /\ {"chest", "Legs"} \subseteq RecordedMuscles
    /\ now > recorded["chest"].time /\ now > recorded["Legs"].time
    /\ ret.val.primaryFatigue > 0
    /\ ret.val.secondaryFatigue = 4 * CurrentLevel("Legs")
    /\ ret.val.secondaryFatigue > ret.val.overallFatigue
    /\ ret.val.overallFatigue > ret.val.primaryFatigue

\* C17: the first updateFatigue for a key leaves a state whose recoveryRate and whose
\* increase are those of the key's rows in the two tables when the key is in the
\* tables (Chest: base 15, recovery 2.5), and the defaults, recovery 2.0 and base 10,
\* for every other key, "chest" included.
C17_UnknownKeys ==
    (ret.op = "updateFatigue" /\ recorded[ret.arg.muscleGroup].calls = 1) =>
        LET m == ret.arg.muscleGroup
            stored == get(muscleFatigue, m)
        IN  /\ m \in DOMAIN MUSCLE_RECOVERY_RATES =>
                   stored.recoveryRate = MUSCLE_RECOVERY_RATES[m]
            /\ m \notin DOMAIN MUSCLE_RECOVERY_RATES => stored.recoveryRate = 20
            /\ stored.fatigueLevel = IncreaseFormula(ret.arg)
            /\ m = "Chest" => stored.recoveryRate = 25
            /\ (m = "Chest" /\ ret.arg = BenchSet(m)) =>
                   stored.fatigueLevel = 15 * 1152 * (Unit \div 1000)
            /\ (m = "chest" /\ ret.arg = BenchSet(m)) =>
                   stored.fatigueLevel = 10 * 1152 * (Unit \div 1000)

\* The set with every negative exerciseVolume, exerciseDuration and restTime at zero.
NegativesAtZero(factors) ==
    [factors EXCEPT !.exerciseVolume = IF @ < 0 THEN 0 ELSE @,
                    !.exerciseDuration = IF @ < 0 THEN 0 ELSE @,
                    !.restTime = IF @ < 0 THEN 0 ELSE @]

\* C18: updateFatigue treats a negative exerciseDuration, exerciseVolume or restTime
\* as zero: the increase of the set is never negative, the level it stores is never
\* below the muscle's level just before the call nor below 0, totalVolume never goes
\* down, and the rest factor is never above 1.0.
C18_NegativeInputs ==
    [][ret'.op = "updateFatigue" =>
          LET factors == ret'.arg
              m == factors.muscleGroup
              levelBefore == getFatigueLevel(muscleFatigue, now, m)
              volumeBefore ==
                  IF has(muscleFatigue, m) THEN get(muscleFatigue, m).totalVolume ELSE 0
              new == get(muscleFatigue', m)
          IN  /\ calculateFatigueIncrease(factors) >= 0
              /\ new.fatigueLevel >= levelBefore
              /\ new.fatigueLevel >= 0
              /\ new.totalVolume >= volumeBefore
              /\ restFactor(factors) <= 10
              /\ muscleFatigue' =
                     updateFatigue(muscleFatigue, now, NegativesAtZero(factors))
      ]_vars

\* C19: every number getFatigueLevel, getAllFatigueLevels and getExerciseFatigue return
\* lies in [0, 100], whatever the stored state and whatever the time of the call, a
\* time before the muscle's lastExerciseTime included.
C19_OutputsInRange ==
    /\ ret.op = "getFatigueLevel" => InRange(ret.val)
    /\ ret.op = "getAllFatigueLevels" =>
           \A i \in 1..Len(ret.val) : InRange(ret.val[i].fatigueLevel)
    /\ ret.op = "getExerciseFatigue" =>
           /\ 0 <= ret.val.primaryFatigue /\ ret.val.primaryFatigue <= 4 * 100 * Unit
           /\ 0 <= ret.val.secondaryFatigue /\ ret.val.secondaryFatigue <= 4 * 100 * Unit
           /\ 0 <= ret.val.overallFatigue /\ ret.val.overallFatigue <= 4 * 100 * Unit

\* C20: the rest factor of a set is 1.0 at restTime 0, gets smaller as restTime grows up
\* to 300 seconds, is strictly above 0.5 for every restTime below 300 seconds, is 0.5
\* for every restTime of 300 seconds or more, and is never below 0.5.  (In tenths.)
C20_RestFactor ==
    ret.op \in {"calculateFatigueIncrease", "updateFatigue"} =>
        LET restTime == ret.arg.restTime
            factor == restFactor(ret.arg)
        IN  /\ restTime = 0 => factor = 10
            /\ \A longer \in Rests :
                   (restTime < longer /\ longer <= 300) =>
                       factor > restFactor([ret.arg EXCEPT !.restTime = longer])
            /\ (0 <= restTime /\ restTime < 300) => factor > 5
            /\ restTime >= 300 => factor = 5
            /\ factor >= 5

\* C21: on inputs that are not negative, calculateFatigueIncrease does not get smaller
\* when exerciseVolume, exerciseIntensity or exerciseDuration alone is made larger,
\* does not get larger when restTime alone is made larger, and is ordered
\* beginner <= intermediate <= advanced on one set.
C21_Monotone ==
    ret.op = "calculateFatigueIncrease" =>
        LET f == ret.arg
            inc(g) == calculateFatigueIncrease(g)
        IN  /\ \A v \in Volumes :
                   v >= f.exerciseVolume => inc([f EXCEPT !.exerciseVolume = v]) >= ret.val
            /\ \A i \in Intensities :
                   i >= f.exerciseIntensity =>
                       inc([f EXCEPT !.exerciseIntensity = i]) >= ret.val
            /\ \A d \in Durations :
                   d >= f.exerciseDuration =>
                       inc([f EXCEPT !.exerciseDuration = d]) >= ret.val
            /\ \A r \in Rests :
                   r >= f.restTime => inc([f EXCEPT !.restTime = r]) <= ret.val
            /\ inc([f EXCEPT !.exerciseDifficulty = "beginner"])
                   <= inc([f EXCEPT !.exerciseDifficulty = "intermediate"])
            /\ inc([f EXCEPT !.exerciseDifficulty = "intermediate"])
                   <= inc([f EXCEPT !.exerciseDifficulty = "advanced"])

\* A set below the cap for which more volume, more intensity, more time and a harder
\* exercise each give strictly more, and more rest strictly less.
C21_Witness ==
    /\ ret.op = "calculateFatigueIncrease"
    /\ ret.val > 0 /\ ret.val < 50 * Unit
    /\ ret.arg.exerciseDifficulty = "intermediate"
    /\ \E v \in Volumes :
           calculateFatigueIncrease([ret.arg EXCEPT !.exerciseVolume = v]) > ret.val
    /\ \E i \in Intensities :
           calculateFatigueIncrease([ret.arg EXCEPT !.exerciseIntensity = i]) > ret.val
    /\ \E d \in Durations :
           calculateFatigueIncrease([ret.arg EXCEPT !.exerciseDuration = d]) > ret.val
    /\ \E r \in Rests :
           /\ r > ret.arg.restTime
           /\ calculateFatigueIncrease([ret.arg EXCEPT !.restTime = r]) < ret.val
    /\ calculateFatigueIncrease([ret.arg EXCEPT !.exerciseDifficulty = "beginner"]) < ret.val
    /\ calculateFatigueIncrease([ret.arg EXCEPT !.exerciseDifficulty = "advanced"]) > ret.val

\* The stored totalVolume and exerciseCount of muscle m, 0 for a muscle without state.
VolumeOf(mf, m) == IF has(mf, m) THEN get(mf, m).totalVolume ELSE 0

CountOf(mf, m) == IF has(mf, m) THEN get(mf, m).exerciseCount ELSE 0

\* C22: between two resets no operation makes the totalVolume or the exerciseCount of
\* a muscle smaller; an updateFatigue adds 1 to the exerciseCount and the set's volume
\* to the totalVolume of its muscle, and no other operation changes either.
C22_Counters ==
    [][ret'.op # "resetFatigue" =>
          /\ \A m \in Keys :
                 /\ VolumeOf(muscleFatigue', m) >= VolumeOf(muscleFatigue, m)
                 /\ CountOf(muscleFatigue', m) >= CountOf(muscleFatigue, m)
          /\ \A m \in Keys :
                 IF ret'.op = "updateFatigue" /\ ret'.arg.muscleGroup = m
                 THEN /\ CountOf(muscleFatigue', m) = CountOf(muscleFatigue, m) + 1
                      /\ VolumeOf(muscleFatigue', m)
                             = VolumeOf(muscleFatigue, m) + ret'.arg.exerciseVolume
                 ELSE /\ CountOf(muscleFatigue', m) = CountOf(muscleFatigue, m)
                      /\ VolumeOf(muscleFatigue', m) = VolumeOf(muscleFatigue, m)
      ]_vars

\* The recovery rate of the tables for muscle m, in tenths: its row, or 2.0.
TableRate(m) ==
    IF m \in DOMAIN MUSCLE_RECOVERY_RATES THEN MUSCLE_RECOVERY_RATES[m] ELSE 20

\* C23: in every state the recoveryRate stored for a muscle is the rate of the muscle's
\* row in the table, or 2.0 for a muscle without a row: the rate given when the state
\* was created, which no later updateFatigue and no query has changed.  The entries
\* getAllFatigueLevels returns carry the same rate.
C23_RateFixed ==
    /\ \A i \in 1..Len(muscleFatigue) :
           LET m == muscleFatigue[i].muscleGroup IN
           /\ muscleFatigue[i].recoveryRate = TableRate(m)
           /\ m = "Chest" => muscleFatigue[i].recoveryRate = 25
           /\ m = "Legs" => muscleFatigue[i].recoveryRate = 40
           /\ m = "chest" => muscleFatigue[i].recoveryRate = 20
    /\ ret.op = "getAllFatigueLevels" =>
           \A i \in 1..Len(ret.val) :
               ret.val[i].recoveryRate = TableRate(ret.val[i].muscleGroup)

\* Chest has been updated three times and read since: its recovery rate is still 2.5.
C23_Witness ==
    /\ recorded["Chest"].calls = 3
    /\ now > recorded["Chest"].time
    /\ ret.op \in QueryOps
    /\ get(muscleFatigue, "Chest").exerciseCount = 3
    /\ get(muscleFatigue, "Chest").recoveryRate = 25

\* The texts in which getFatigueRecommendations names muscle m.
NamesMuscle(text, m) ==
    \E n \in 0..100 :
        \/ text = m \o " (" \o ToString(n) \o "% fatigue)"
        \/ text = "Consider targeting " \o m \o " (" \o ToString(n) \o "% fatigue)"

\* C24: a muscle not recorded since the construction or the last reset has no entry in
\* the Map and a level of 0, also right after it was asked about through
\* getFatigueLevel or as muscleGroup or target of getExerciseFatigue; it has no entry
\* in what getAllFatigueLevels returns and is not named by the recommendations.
C24_Unrecorded ==
    \A m \in Muscles :
        recorded[m].calls = 0 =>
            /\ ~has(muscleFatigue, m)
            /\ getFatigueLevel(muscleFatigue, now, m) = 0
            /\ (ret.op = "getFatigueLevel" /\ ret.arg = m) => ret.val = 0
            /\ (ret.op = "getExerciseFatigue" /\ ret.arg.muscleGroup = m) =>
                   ret.val.primaryFatigue = 0
            /\ ret.op = "getAllFatigueLevels" =>
                   \A i \in 1..Len(ret.val) : ret.val[i].muscleGroup # m
            /\ ret.op = "getFatigueRecommendations" =>
                   /\ \A i \in 1..Len(ret.val.restNeeded) :
                          ~NamesMuscle(ret.val.restNeeded[i], m)
                   /\ ~NamesMuscle(ret.val.nextExerciseSuggestion, m)

\* getExerciseFatigue was asked about Legs with the targets Chest and "chest" while
\* Chest alone is recorded: the Map still holds Chest alone.
C24_Witness ==
    /\ ret.op = "getExerciseFatigue"
    /\ ret.arg = [muscleGroup |-> "Legs", targetMuscles |-> <<"Chest", "chest">>]
    /\ RecordedMuscles = {"Chest"}
    /\ Len(muscleFatigue) = 1 /\ muscleFatigue[1].muscleGroup = "Chest"
    /\ ret.val.primaryFatigue = 0
    /\ ret.val.secondaryFatigue > 0

\* C25: the keys of the Map are exactly the muscles that had an updateFatigue since
\* the last reset, one entry each: an entry comes with the first updateFatigue of its
\* key and stays, also when the muscle has recovered to 0, until resetFatigue, which
\* leaves the Map empty.
C25_KeysGrow ==
    /\ {muscleFatigue[i].muscleGroup : i \in 1..Len(muscleFatigue)} = RecordedMuscles
    /\ Len(muscleFatigue) = Cardinality(RecordedMuscles)
    /\ \A i, j \in 1..Len(muscleFatigue) :
           muscleFatigue[i].muscleGroup = muscleFatigue[j].muscleGroup => i = j
    /\ \A m \in RecordedMuscles : CurrentLevel(m) = 0 => has(muscleFatigue, m)
    /\ ret.op = "resetFatigue" => muscleFatigue = << >>

\* Two muscles are recorded, one of them updated twice and one recovered to 0 and read
\* as 0: the Map holds both, one entry each.
C25_Witness ==
    /\ ret.op = "getFatigueLevel" /\ ret.val = 0
    /\ recorded[ret.arg].calls > 0
    /\ recorded[ret.arg].level > 0
    /\ Len(muscleFatigue) = 2
    /\ \E m \in RecordedMuscles : recorded[m].calls = 2

\* C26: workoutStartTime is the time of the construction until the first resetFatigue
\* and the time of the last resetFatigue after it; getWorkoutDuration returns
\* now - workoutStartTime (in minutes: divided by 60000), which is never negative,
\* never gets smaller from one step to the next unless the step is a reset, is 0 at
\* the time of a reset, and is left as it is by updateFatigue.
C26_WorkoutDuration ==
    [][/\ resets' = 0 => workoutStartTime' = 0
       /\ ret'.op = "resetFatigue" => workoutStartTime' = now'
       /\ ret'.op # "resetFatigue" =>
              /\ workoutStartTime' = workoutStartTime
              /\ now' - workoutStartTime' >= now - workoutStartTime
       /\ ret'.op = "getWorkoutDuration" =>
              /\ ret'.val = now' - workoutStartTime'
              /\ ret'.val >= 0
              /\ ret.op = "resetFatigue" => ret'.val = 0
       /\ ret'.op = "updateFatigue" =>
              getWorkoutDuration(workoutStartTime', now')
                  = getWorkoutDuration(workoutStartTime, now)
      ]_vars

\* The duration asked for 2.5 minutes or more after a reset that was itself made after
\* the construction, a set recorded in between.
C26_Witness ==
    /\ ret.op = "getWorkoutDuration"
    /\ resets = 1 /\ workoutStartTime > 0
    /\ muscleFatigue # << >>
    /\ ret.val > 0 /\ ret.val < now


\* C27: calls of updateFatigue on a muscle that run one after the other lose
\* nothing: once none of them is in flight, the muscle's exerciseCount and
\* totalVolume are the number and the summed volume of the calls made on it.
\* Calls on the same muscle whose get, modify and set steps interleave can
\* lose one (C27_Witness).
InFlightOn(m) == \E c \in Callers : onKey(c, m)

C27_SerialKeepsAll ==
    \A m \in Muscles :
        (~recorded[m].overlapped /\ ~InFlightOn(m)) =>
            /\ CountOf(muscleFatigue, m) = recorded[m].calls
            /\ VolumeOf(muscleFatigue, m) = recorded[m].volume

\* Two calls on Chest have interleaved and returned, and the Map counts one
\* set and one set's volume.
C27_Witness ==
    /\ \A c \in Callers : inFlight[c].pc = "idle"
    /\ recorded["Chest"].overlapped
    /\ recorded["Chest"].calls = 2
    /\ CountOf(muscleFatigue, "Chest") = 1
    /\ VolumeOf(muscleFatigue, "Chest") < recorded["Chest"].volume

\* C28: calculateFatigueIncrease is a function of its input alone: in every
\* state of the engine and at every time it returns the formula's value for
\* the factors it was given, and the call leaves the Map and workoutStartTime
\* as they were.
C28_Pure ==
    [][ret'.op = "calculateFatigueIncrease" =>
           /\ ret'.val = IncreaseFormula(ret'.arg)
           /\ muscleFatigue' = muscleFatigue
           /\ workoutStartTime' = workoutStartTime
      ]_vars

\* The bench press set's increase asked for after a reset, 5 minutes after a
\* Chest set was recorded: 17.28, as on a fresh engine at time 0.
C28_Witness ==
    /\ ret.op = "calculateFatigueIncrease" /\ ret.arg = BenchSet("Chest")
    /\ resets = 1 /\ workoutStartTime > 0
    /\ has(muscleFatigue, "Chest")
    /\ now - get(muscleFatigue, "Chest").lastExerciseTime = 300000
    /\ ret.val = 1728 * (Unit \div 100)

\* The Map of an engine whose one recorded set is the bench press set on Chest,
\* made 2.5 minutes after time 0.
BenchAfterTick ==
    <<[muscleGroup |-> "Chest", fatigueLevel |-> 1728 * (Unit \div 100),
       lastExerciseTime |-> 150000, totalVolume |-> 1600, exerciseCount |-> 1,
       recoveryRate |-> 25]>>

C30_OthersUntouched ==
    [][ret'.op = "updateFatigue" =>
           /\ Len(muscleFatigue') >= Len(muscleFatigue)
           /\ \A i \in 1..Len(muscleFatigue) :
                  muscleFatigue[i].muscleGroup # ret'.arg.muscleGroup =>
                      muscleFatigue'[i] = muscleFatigue[i]
      ]_vars

\* A Chest set recorded some minutes after a Legs set: the Legs entry still
\* holds the level and the time of its own set, which a read now finds decayed.
C30_Witness ==
    /\ ret.op = "updateFatigue" /\ ret.arg.muscleGroup = "Chest"
    /\ has(muscleFatigue, "Legs")
    /\ get(muscleFatigue, "Legs").lastExerciseTime < now
    /\ get(muscleFatigue, "Legs").lastExerciseTime = recorded["Legs"].time
    /\ get(muscleFatigue, "Legs").fatigueLevel = recorded["Legs"].level
    /\ getFatigueLevel(muscleFatigue, now, "Legs") < get(muscleFatigue, "Legs").fatigueLevel

\* C31: in every state the Map holds an entry for exactly the muscle groups
\* updateFatigue was called for since the construction or the last reset; the
\* entry's exerciseCount is the number of those calls, hence at least 1, and
\* its totalVolume the sum of their volumes.
C31_CountersMatchCalls ==
    \A m \in Keys :
        /\ has(muscleFatigue, m) <=> recorded[m].calls >= 1
        /\ has(muscleFatigue, m) => get(muscleFatigue, m).exerciseCount >= 1
        /\ CountOf(muscleFatigue, m) = recorded[m].calls
        /\ VolumeOf(muscleFatigue, m) = recorded[m].volume

\* After a reset, Chest has been given the bench press set and the heavy set:
\* it counts 2 sets and their summed volume, and nothing of before the reset.
C31_Witness ==
    /\ resets = 1
    /\ recorded["Chest"].calls = 2
    /\ get(muscleFatigue, "Chest").exerciseCount = 2
    /\ get(muscleFatigue, "Chest").totalVolume = 1600 + 100000

\* C32: on an engine whose Map is empty, just constructed or just reset,
\* getFatigueRecommendations returns no restNeeded, "maintain" and the fixed
\* suggestion, while getFatigueLevel would return 0 for every muscle group.
C32_EmptyEngine ==
    (ret.op = "getFatigueRecommendations" /\ muscleFatigue = << >>) =>
        /\ ret.val = [restNeeded |-> << >>,
                      intensityAdjustment |-> "maintain",
                      nextExerciseSuggestion |->
                          "Consider a different muscle group or take a longer rest"]
        /\ \A m \in Muscles : getFatigueLevel(muscleFatigue, now, m) = 0

\* Recommendations asked for right after a reset that followed a recorded set.
C32_Witness ==
    /\ ret.op = "getFatigueRecommendations"
    /\ muscleFatigue = << >>
    /\ resets = 1 /\ workoutStartTime = now /\ now > 0
    /\ ret.val.restNeeded = << >>
    /\ ret.val.nextExerciseSuggestion = FallbackSuggestion

\* The text names muscle m with some percentage.
NamesWithPercent(text, m) ==
    \E n \in 0..100 : text = m \o " (" \o ToString(n) \o "% fatigue)"

\* C33: in every result of getFatigueRecommendations restNeeded is non-empty exactly
\* when intensityAdjustment is "reduce", and a muscle the suggestion names is named
\* by no entry of restNeeded.
C33_OneSnapshot ==
    ret.op = "getFatigueRecommendations" =>
        /\ ret.val.restNeeded # << >> <=> ret.val.intensityAdjustment = "reduce"
        /\ \A m \in Muscles :
               ret.val.nextExerciseSuggestion \in
                   {"Consider targeting " \o m \o " (" \o ToString(n) \o "% fatigue)" :
                        n \in 0..100}
               => \A i \in 1..Len(ret.val.restNeeded) :
                      ~NamesWithPercent(ret.val.restNeeded[i], m)

\* Chest is listed in restNeeded, the answer is "reduce" and the suggestion names
\* Legs.
C33_Witness ==
    /\ ret.op = "getFatigueRecommendations"
    /\ ret.val.intensityAdjustment = "reduce"
    /\ Len(ret.val.restNeeded) = 1
    /\ NamesWithPercent(ret.val.restNeeded[1], "Chest")
    /\ ret.val.nextExerciseSuggestion = "Consider targeting Legs (20% fatigue)"

\* min(100, 50 * n), in Units.
CapAfter(n) == Min(100 * Unit, 50 * n * Unit)

\* updateFatigue calls since the last reset, over all muscles, by the history.
CallsMade == recorded["Chest"].calls + recorded["Legs"].calls + recorded["chest"].calls
                 + recorded["constructor"].calls

\* C34: a muscle given n sets since the last reset has a stored level, and a level
\* returned by getFatigueLevel and getAllFatigueLevels, of at most min(100, 50 * n);
\* a muscle given one set is named by no entry of restNeeded, and an engine given
\* one set in all never answers "reduce".
C34_CapPerSets ==
    /\ \A i \in 1..Len(muscleFatigue) :
           muscleFatigue[i].fatigueLevel
               <= CapAfter(recorded[muscleFatigue[i].muscleGroup].calls)
    /\ ret.op = "getFatigueLevel" => ret.val <= CapAfter(recorded[ret.arg].calls)
    /\ ret.op = "getAllFatigueLevels" =>
           \A i \in 1..Len(ret.val) :
               ret.val[i].fatigueLevel <= CapAfter(recorded[ret.val[i].muscleGroup].calls)
    /\ ret.op = "getFatigueRecommendations" =>
           /\ \A m \in Muscles :
                  recorded[m].calls = 1 =>
                      \A i \in 1..Len(ret.val.restNeeded) :
                          ~NamesWithPercent(ret.val.restNeeded[i], m)
           /\ CallsMade = 1 => ret.val.intensityAdjustment # "reduce"

\* The muscle's entry has been left alone for 100 / recoveryRate minutes or more.
LeftToRecover(f) == (now - f.lastExerciseTime) * f.recoveryRate >= 100 * Unit

\* An entry of the muscle at level 100, stamped with time 0.
FullyFatigued(m) ==
    <<[muscleGroup |-> m, fatigueLevel |-> 100 * Unit, lastExerciseTime |-> 0,
       totalVolume |-> 0, exerciseCount |-> 1, recoveryRate |-> recoveryRateOf(m)]>>

\* What holds of every state: a muscle left alone for 100 / recoveryRate minutes reads
\* 0 and is below 30, so that recommendations then name a muscle; a muscle stored at
\* 100 reads above 0 before that time; the time is 200 minutes for Forearms and 50
\* minutes for a key that is in no table.
RecoveredAfterBound ==
    /\ \A i \in 1..Len(muscleFatigue) :
           LET f == muscleFatigue[i] IN
           /\ LeftToRecover(f) =>
                  /\ getFatigueLevel(muscleFatigue, now, f.muscleGroup) = 0
                  /\ (ret.op = "getFatigueLevel" /\ ret.arg = f.muscleGroup) => ret.val = 0
                  /\ ret.op = "getFatigueRecommendations" =>
                         \E m \in Muscles :
                             ret.val.nextExerciseSuggestion
                                 = "Consider targeting " \o m \o " (0% fatigue)"
           /\ (f.fatigueLevel = 100 * Unit /\ ~LeftToRecover(f)) =>
                  getFatigueLevel(muscleFatigue, now, f.muscleGroup) > 0
    /\ getFatigueLevel(FullyFatigued("Forearms"), 200 * MsPerMinute, "Forearms") = 0
    /\ getFatigueLevel(FullyFatigued("Forearms"), 200 * MsPerMinute - 30000, "Forearms") > 0
    /\ getFatigueLevel(FullyFatigued("chest"), 50 * MsPerMinute, "chest") = 0
    /\ getFatigueLevel(FullyFatigued("chest"), 50 * MsPerMinute - 30000, "chest") > 0

\* C35: a recorded muscle that gets no further set for 100 / recoveryRate minutes after
\* its lastExerciseTime (200 minutes for Forearms, 50 for a key in no table) reads 0
\* from then on; as the clock goes on, every recorded muscle comes below 30, where
\* the suggestion may name it, and once the sets have stopped every muscle ends at 0
\* for good.
C35_BoundedRecovery ==
    /\ []RecoveredAfterBound
    /\ \A m \in Muscles :
           has(muscleFatigue, m) ~> (getFatigueLevel(muscleFatigue, now, m) < 30 * Unit)
    /\ <>[](\A m \in Muscles : getFatigueLevel(muscleFatigue, now, m) = 0)

\* "chest", a key in no table, stored at 90 by two sets, read exactly 50 minutes
\* after the second: 0.
C35_Witness ==
    /\ ret.op = "getFatigueLevel" /\ ret.arg = "chest" /\ ret.val = 0
    /\ has(muscleFatigue, "chest")
    /\ get(muscleFatigue, "chest").fatigueLevel = 90 * Unit
    /\ get(muscleFatigue, "chest").recoveryRate = 20
    /\ now - get(muscleFatigue, "chest").lastExerciseTime = 50 * MsPerMinute

\* ---------------------------------------------------------------------------
\* ActiveWorkoutScreen (src/app/workout/active.tsx) and its RestTimerModal
\* (src/unnamed/part_000).  `screen` holds the state hooks of both components as
\* of the last committed render; a handler runs against that render's values and
\* the effects its state changes trigger are part of the same step.
\* ---------------------------------------------------------------------------

\* The most sets one workout logs.
MaxLoggedSets == 5

\* settings.defaultRestTime, in seconds (the modal is given no `duration`).
DefaultRestTime == 90

\* The quick-adjust buttons of the rest timer, in seconds.
QuickAdjustTimes == {30, 60, 90, 120}

\* An exercise of an AI-generated workout: bench press, one set of 20 at 50.
BenchPress ==
    [id |-> "bench-press", muscleGroup |-> "Chest", difficulty |-> "intermediate",
     generatedSets |-> 1, generatedReps |-> 20, generatedWeight |-> 50]

\* An exercise that carries no set count (generatedSets absent, written 0 as
\* `generatedSets || 3` treats both alike): squats, sets of 30 at 100.
Squat ==
    [id |-> "squat", muscleGroup |-> "Legs", difficulty |-> "beginner",
     generatedSets |-> 0, generatedReps |-> 30, generatedWeight |-> 100]

\* The exercise lists the screen is started with, and BoltChat replaces them with.
Workouts == {<<BenchPress>>, <<BenchPress, Squat>>, <<Squat, BenchPress>>}

\* useState<ActiveWorkout | null>(null)
NoWorkout == [started |-> FALSE]

\* useState<Exercise | null>(null), and exercises[i] past the end of the list
NoExercise == [id |-> "undefined"]

\* useState<CompletedWorkout | null>(null)
NoCompletedWorkout == [finished |-> FALSE]

\* The hooks of a screen that has mounted and not yet started its workout, with the
\* hooks of the rest timer it renders.
MountedScreen ==
    [mounted |-> TRUE,
     activeWorkout |-> NoWorkout,
     currentExercise |-> NoExercise,
     currentSetNumber |-> 1,
     showRestTimer |-> FALSE,
     showSummary |-> FALSE,
     completedWorkout |-> NoCompletedWorkout,
     timeRemaining |-> DefaultRestTime,
     isRunning |-> TRUE,
     notifications |-> FALSE,
     handler |-> "mount"]

\* `!activeWorkout || !currentExercise`
Loading(s) == ~s.activeWorkout.started \/ s.currentExercise.id = NoExercise.id

\* sets.filter(set => set.exerciseId === id && set.completed).length
RECURSIVE completedSetsFor(_, _)
completedSetsFor(sets, id) ==
    IF sets = << >> THEN 0
    ELSE (IF Head(sets).exerciseId = id /\ Head(sets).completed THEN 1 ELSE 0)
         + completedSetsFor(Tail(sets), id)

\* generatedSets || 3
recommendedSets(exercise) ==
    IF exercise.generatedSets = 0 THEN 3 ELSE exercise.generatedSets

\* exercises[i], undefined past the end
exerciseAt(exercises, i) ==
    IF i + 1 \in DOMAIN exercises THEN exercises[i + 1] ELSE NoExercise

\* Math.round of a span of milliseconds taken in minutes
roundMinutes(ms) == (2 * ms + MsPerMinute) \div (2 * MsPerMinute)

\* The FatigueFactors completeSet builds for a set of `reps` at `weight`:
\* estimatedMax = weight * (1 + reps / 30) and intensity = min(weight / estimatedMax, 1),
\* that is 30 / (30 + reps), in tenths.
setFactors(exercise, weight, reps) ==
    [exerciseIntensity |-> Min((10 * 30) \div (30 + reps), 10),
     exerciseVolume |-> weight * reps,
     exerciseDuration |-> 60,
     restTime |-> 0,
     muscleGroup |-> exercise.muscleGroup,
     exerciseDifficulty |-> exercise.difficulty]

\* finishWorkout(), on the hooks s at time t
finishWorkout(s, t) ==
    IF ~s.activeWorkout.started THEN s
    ELSE [s EXCEPT
            !.completedWorkout =
                [finished |-> TRUE,
                 duration |-> roundMinutes(t - s.activeWorkout.startTime),
                 exercises |-> s.activeWorkout.exercises,
                 totalSets |-> Len(s.activeWorkout.sets)],
            !.showSummary = TRUE]

\* skipRest(), on the hooks s at time t
skipRest(s, t) ==
    LET hidden == [s EXCEPT !.showRestTimer = FALSE]
    IN  IF Loading(s) THEN hidden
        ELSE LET completedSetsForCurrentExercise ==
                     completedSetsFor(s.activeWorkout.sets, s.currentExercise.id)
                 currentIndex == s.activeWorkout.currentExerciseIndex
                 nextIndex == currentIndex + 1
             IN  IF completedSetsForCurrentExercise >= recommendedSets(s.currentExercise)
                 THEN IF nextIndex < Len(s.activeWorkout.exercises)
                      THEN [hidden EXCEPT
                              !.currentExercise =
                                  exerciseAt(s.activeWorkout.exercises, nextIndex),
                              !.currentSetNumber = 1,
                              !.activeWorkout.currentExerciseIndex = nextIndex]
                      ELSE finishWorkout(hidden, t)
                 ELSE hidden

\* completeRest(), on the hooks s at time t
completeRest(s, t) ==
    LET hidden == [s EXCEPT !.showRestTimer = FALSE]
    IN  IF Loading(s) THEN hidden
        ELSE LET completedSetsForCurrentExercise ==
                     completedSetsFor(s.activeWorkout.sets, s.currentExercise.id)
                 currentIndex == s.activeWorkout.currentExerciseIndex
                 nextIndex == currentIndex + 1
             IN  IF completedSetsForCurrentExercise >= recommendedSets(s.currentExercise)
                 THEN IF nextIndex < Len(s.activeWorkout.exercises)
                      THEN [hidden EXCEPT
                              !.currentExercise =
                                  exerciseAt(s.activeWorkout.exercises, nextIndex),
                              !.currentSetNumber = 1,
                              !.activeWorkout.currentExerciseIndex = nextIndex]
                      ELSE finishWorkout(hidden, t)
                 ELSE hidden

\* A completeSet that keeps only the set just logged.
completeSet_SetsReplaced(s, weight, reps) ==
    IF Loading(s) THEN s
    ELSE LET newSet == [exerciseId |-> s.currentExercise.id, weight |-> weight,
                        reps |-> reps, completed |-> TRUE]
             updatedSets == <<newSet>>
             completedSetsForCurrentExercise ==
                 completedSetsFor(updatedSets, s.currentExercise.id)
         IN  [s EXCEPT
                !.activeWorkout.sets = updatedSets,
                !.currentSetNumber =
                    IF completedSetsForCurrentExercise >= recommendedSets(s.currentExercise)
                    THEN @ ELSE @ + 1,
                !.showRestTimer = TRUE]

\* completeSet(weight, reps), on the hooks s: what it sets, the call of updateFatigue
\* aside.
completeSet(s, weight, reps) ==
    IF Loading(s) THEN s
    ELSE LET newSet == [exerciseId |-> s.currentExercise.id, weight |-> weight,
                        reps |-> reps, completed |-> TRUE]
             updatedSets == Append(s.activeWorkout.sets, newSet)
             completedSetsForCurrentExercise ==
                 completedSetsFor(updatedSets, s.currentExercise.id)
         IN  [s EXCEPT
                !.activeWorkout.sets = updatedSets,
                !.currentSetNumber =
                    IF completedSetsForCurrentExercise >= recommendedSets(s.currentExercise)
                    THEN @ ELSE @ + 1,
                !.showRestTimer = TRUE]

\* handleWorkoutModified(modifiedWorkout), on the hooks s
handleWorkoutModified(s, exercises) ==
    IF ~s.activeWorkout.started THEN s
    ELSE [s EXCEPT !.activeWorkout.exercises = exercises]

\* scheduleRestEndNotification and scheduleRestCompleteNotification of the
\* useNotifications hook: the rest notifications are pending.
scheduleRestNotifications(s) == [s EXCEPT !.notifications = TRUE]

\* cancelRestNotifications of the useNotifications hook: none is pending.
cancelRestNotifications(s) == [s EXCEPT !.notifications = FALSE]

\* `visible && isRunning && timeRemaining > 0`, the condition of the modal's
\* notification effect and of its countdown effect
Counting(s) == s.showRestTimer /\ s.isRunning /\ s.timeRemaining > 0

\* A render whose notification effect schedules and never cancels.
commit_ScheduleOnly(old, new, handler) ==
    LET opened == new.showRestTimer /\ ~old.showRestTimer
        restarted == IF opened
                     THEN [new EXCEPT !.timeRemaining = DefaultRestTime, !.isRunning = TRUE]
                     ELSE new
        changed == <<restarted.showRestTimer, restarted.isRunning, restarted.timeRemaining>>
                   # <<old.showRestTimer, old.isRunning, old.timeRemaining>>
        notified == IF changed /\ Counting(restarted)
                    THEN scheduleRestNotifications(restarted)
                    ELSE restarted
    IN  [notified EXCEPT !.handler = handler]

\* The render that commits the hooks `new` after the render of `old`, with the
\* modal's effects: becoming visible restarts the countdown, and a change of
\* visible, isRunning or timeRemaining schedules the rest notifications when the
\* timer counts and cancels them when it does not.
commit(old, new, handler) ==
    LET opened == new.showRestTimer /\ ~old.showRestTimer
        restarted == IF opened
                     THEN [new EXCEPT !.timeRemaining = DefaultRestTime, !.isRunning = TRUE]
                     ELSE new
        changed == <<restarted.showRestTimer, restarted.isRunning, restarted.timeRemaining>>
                   # <<old.showRestTimer, old.isRunning, old.timeRemaining>>
        notified == IF ~changed THEN restarted
                    ELSE IF Counting(restarted)
                         THEN scheduleRestNotifications(restarted)
                         ELSE cancelRestNotifications(restarted)
    IN  [notified EXCEPT !.handler = handler]

\* The rest timer is on screen: the main render, with `visible` true.
ModalShown ==
    /\ screen.mounted
    /\ ~Loading(screen)
    /\ ~(screen.showSummary /\ screen.completedWorkout.finished)
    /\ screen.showRestTimer

\* The workout view is on screen with no modal over it.
WorkoutShown ==
    /\ screen.mounted
    /\ ~Loading(screen)
    /\ ~(screen.showSummary /\ screen.completedWorkout.finished)
    /\ ~screen.showRestTimer

\* The mount effect: startWorkout(exercises) creates the workout and its calculator.
StartWorkout(exercises) ==
    /\ screen.mounted
    /\ ~screen.activeWorkout.started
    /\ muscleFatigue' = << >>
    /\ workoutStartTime' = now
    /\ recorded' = NoCalls
    /\ ret' = [op |-> "constructor"]
    /\ screen' = commit(screen,
                        [screen EXCEPT
                           !.activeWorkout =
                               [started |-> TRUE, exercises |-> exercises, sets |-> << >>,
                                currentExerciseIndex |-> 0, startTime |-> now],
                           !.currentExercise = exerciseAt(exercises, 0)],
                        "startWorkout")
    /\ UNCHANGED <<now, resets, inFlight>>

\* The Log Set button: completeSet(generatedWeight || 45, generatedReps || 10).
CompleteSet ==
    /\ WorkoutShown
    /\ Len(screen.activeWorkout.sets) < MaxLoggedSets
    /\ LET exercise == screen.currentExercise
           weight == IF exercise.generatedWeight = 0 THEN 45 ELSE exercise.generatedWeight
           reps == IF exercise.generatedReps = 0 THEN 10 ELSE exercise.generatedReps
       IN  /\ UpdateFatigueState(setFactors(exercise, weight, reps))
           /\ screen' = commit(screen, completeSet(screen, weight, reps), "completeSet")
    /\ UNCHANGED <<workoutStartTime, now, resets, inFlight>>

\* The modal's Skip Rest button: handleSkip cancels the notifications and calls onSkip.
HandleSkip ==
    /\ ModalShown
    /\ screen' = commit(screen, skipRest(cancelRestNotifications(screen), now),
                        "skipRest")
    /\ ret' = [op |-> "none"]
    /\ UNCHANGED <<muscleFatigue, workoutStartTime, now, recorded, resets, inFlight>>

\* A close button that ends the rest as the Skip Rest button does.
PressClose_EndsRest ==
    /\ ModalShown
    /\ screen' = commit(screen, skipRest(screen, now), "onClose")
    /\ ret' = [op |-> "none"]
    /\ UNCHANGED <<muscleFatigue, workoutStartTime, now, recorded, resets, inFlight>>

\* The modal's close button: onClose is `() => setShowRestTimer(false)`.
PressClose ==
    /\ ModalShown
    /\ screen' = commit(screen, [screen EXCEPT !.showRestTimer = FALSE], "onClose")
    /\ ret' = [op |-> "none"]
    /\ UNCHANGED <<muscleFatigue, workoutStartTime, now, recorded, resets, inFlight>>

\* A countdown whose last firing leaves the rest to be ended by hand.
TimerTick_NoComplete ==
    /\ ModalShown
    /\ Counting(screen)
    /\ screen' =
          IF screen.timeRemaining <= 1
          THEN commit(screen,
                      cancelRestNotifications([screen EXCEPT !.isRunning = FALSE,
                                                              !.timeRemaining = 0]),
                      "tick")
          ELSE commit(screen, [screen EXCEPT !.timeRemaining = @ - 1], "tick")
    /\ ret' = [op |-> "none"]
    /\ UNCHANGED <<muscleFatigue, workoutStartTime, now, recorded, resets, inFlight>>

\* One firing of the countdown's one-second interval.
TimerTick ==
    /\ ModalShown
    /\ Counting(screen)
    /\ screen' =
          IF screen.timeRemaining <= 1
          THEN commit(screen,
                      completeRest(cancelRestNotifications(
                                       [screen EXCEPT !.isRunning = FALSE,
                                                      !.timeRemaining = 0]), now),
                      "completeRest")
          ELSE commit(screen, [screen EXCEPT !.timeRemaining = @ - 1], "tick")
    /\ ret' = [op |-> "none"]
    /\ UNCHANGED <<muscleFatigue, workoutStartTime, now, recorded, resets, inFlight>>

\* The modal's play/pause button.
HandlePlayPause ==
    /\ ModalShown
    /\ screen' = commit(screen, [screen EXCEPT !.isRunning = ~@], "handlePlayPause")
    /\ ret' = [op |-> "none"]
    /\ UNCHANGED <<muscleFatigue, workoutStartTime, now, recorded, resets, inFlight>>

\* The modal's reset button.
HandleReset ==
    /\ ModalShown
    /\ screen' = commit(screen,
                        cancelRestNotifications(
                            [screen EXCEPT !.timeRemaining = DefaultRestTime,
                                           !.isRunning = FALSE]),
                        "handleReset")
    /\ ret' = [op |-> "none"]
    /\ UNCHANGED <<muscleFatigue, workoutStartTime, now, recorded, resets, inFlight>>

\* One of the modal's quick-adjust buttons.
QuickAdjust(time) ==
    /\ ModalShown
    /\ screen' = commit(screen,
                        cancelRestNotifications(
                            [screen EXCEPT !.timeRemaining = time,
                                           !.isRunning = FALSE]),
                        "quickAdjust")
    /\ ret' = [op |-> "none"]
    /\ UNCHANGED <<muscleFatigue, workoutStartTime, now, recorded, resets, inFlight>>

\* The End button, confirmed in its alert: finishWorkout().
HandleEndWorkout ==
    /\ WorkoutShown
    /\ screen' = commit(screen, finishWorkout(screen, now), "handleEndWorkout")
    /\ ret' = [op |-> "none"]
    /\ UNCHANGED <<muscleFatigue, workoutStartTime, now, recorded, resets, inFlight>>

\* BoltChat hands back a modified workout.
HandleWorkoutModified(exercises) ==
    /\ screen.mounted
    /\ ~Loading(screen)
    /\ ~(screen.showSummary /\ screen.completedWorkout.finished)
    /\ exercises # screen.activeWorkout.exercises
    /\ screen' = commit(screen, handleWorkoutModified(screen, exercises),
                        "handleWorkoutModified")
    /\ ret' = [op |-> "none"]
    /\ UNCHANGED <<muscleFatigue, workoutStartTime, now, recorded, resets, inFlight>>

\* The screen as it mounts, before its mount effect has run.
InitScreen ==
    /\ now = 0
    /\ muscleFatigue = << >>
    /\ workoutStartTime = now
    /\ ret = [op |-> "constructor"]
    /\ recorded = NoCalls
    /\ resets = 0
    /\ inFlight = NoneInFlight
    /\ screen = MountedScreen

NextScreen ==
    \/ \E exercises \in Workouts : StartWorkout(exercises)
    \/ CompleteSet
    \/ HandleSkip
    \/ PressClose
    \/ TimerTick
    \/ HandlePlayPause
    \/ HandleReset
    \/ \E time \in QuickAdjustTimes : QuickAdjust(time)
    \/ HandleEndWorkout
    \/ \E exercises \in Workouts : HandleWorkoutModified(exercises)

SpecScreen == InitScreen /\ [][NextScreen]_vars

\* The step just taken ran the handler h of the screen and changed its hooks.
HandlerRan(h) == screen' # screen /\ screen'.handler = h

\* The sum of exerciseCount over the muscle groups the calculator holds.
TotalExerciseCount ==
    CountOf(muscleFatigue, "Chest") + CountOf(muscleFatigue, "Legs")
    + CountOf(muscleFatigue, "chest") + CountOf(muscleFatigue, "constructor")

ExerciseDone ==
    completedSetsFor(screen.activeWorkout.sets, screen.currentExercise.id)
      >= recommendedSets(screen.currentExercise)

\* A next exercise exists.
HasNext == screen.activeWorkout.currentExerciseIndex + 1 < Len(screen.activeWorkout.exercises)

\* The step just taken ended a rest through skipRest or completeRest.
RestEnded == HandlerRan("skipRest") \/ HandlerRan("completeRest")

\* The step just taken moved the workout to its next exercise.
Advanced ==
    /\ screen'.activeWorkout.currentExerciseIndex
         = screen.activeWorkout.currentExerciseIndex + 1
    /\ screen'.currentExercise
         = screen.activeWorkout.exercises[screen.activeWorkout.currentExerciseIndex + 2]
    /\ screen'.currentSetNumber = 1

\* The step just taken left the current exercise as it was.
ExerciseKept ==
    /\ screen'.activeWorkout.currentExerciseIndex = screen.activeWorkout.currentExerciseIndex
    /\ screen'.currentExercise = screen.currentExercise
    /\ screen'.currentSetNumber = screen.currentSetNumber

\* The step just taken ran finishWorkout.
Finished == ~screen.showSummary /\ screen'.showSummary /\ screen'.completedWorkout.finished

\* C37 (steps): a rest that ends through skipRest or completeRest advances the workout
\* exactly when the current exercise's completed sets have reached its recommended
\* sets and a next exercise exists; it finishes the workout when they have and there
\* is no next exercise; otherwise it leaves the current exercise unchanged.
C37_RestEndSteps ==
    [][RestEnded =>
         /\ ~screen'.showRestTimer
         /\ (ExerciseDone /\ HasNext) => (Advanced /\ ~Finished)
         /\ (ExerciseDone /\ ~HasNext) => (Finished /\ ExerciseKept)
         /\ ~ExerciseDone => (ExerciseKept /\ ~Finished)]_vars

\* C37 (one body): skipRest and completeRest make the same changes to the same hooks.
C37_SameChanges == skipRest(screen, now) = completeRest(screen, now)

\* C37 (index): in every state of a started workout currentExerciseIndex is less than
\* exercises.length.
C37_IndexInRange ==
    screen.activeWorkout.started =>
        screen.activeWorkout.currentExerciseIndex < Len(screen.activeWorkout.exercises)

\* C37: when a rest ends through skipRest or completeRest the workout advances to the
\* next exercise if and only if the current exercise's completed sets have reached its
\* recommended sets and a next exercise exists, finishes when the current exercise is
\* the last one, and otherwise keeps the current exercise; currentExerciseIndex is
\* always less than exercises.length; skipRest and completeRest change the state alike.
C37_RestEnds ==
    /\ C37_RestEndSteps
    /\ [](C37_SameChanges)
    /\ [](C37_IndexInRange)

\* C38: closing the rest timer through its close button only hides it (and with it
\* cancels the pending notifications): the current exercise, its index, the set
\* number, the sets and the summary stay as they are, also when the current
\* exercise's completed sets have reached the recommended count.  After the workout
\* has started, the exercise changes only in a step of skipRest or completeRest, and
\* the workout finishes only in such a step or in a step of the End action.
C38_CloseOnlyHides ==
    [][/\ HandlerRan("onClose") =>
            screen' = [screen EXCEPT !.showRestTimer = FALSE,
                                     !.notifications = FALSE,
                                     !.handler = "onClose"]
       /\ (/\ screen.activeWorkout.started
           /\ \/ screen'.currentExercise # screen.currentExercise
              \/ screen'.activeWorkout.currentExerciseIndex
                   # screen.activeWorkout.currentExerciseIndex)
            => RestEnded
       /\ Finished => (RestEnded \/ HandlerRan("handleEndWorkout"))]_vars

\* The timer was closed after the last recommended set of an exercise that has a
\* successor: the workout is still on that exercise and is not finished.
C38_Witness ==
    /\ screen.handler = "onClose"
    /\ ~screen.showRestTimer
    /\ screen.activeWorkout.started
    /\ ExerciseDone
    /\ HasNext
    /\ screen.activeWorkout.currentExerciseIndex = 0
    /\ ~screen.showSummary

\* The workout screen with the countdown's interval firing as long as the modal's
\* countdown effect keeps it set.
SpecTimer == InitScreen /\ [][NextScreen]_vars /\ WF_vars(TimerTick)

\* The step just taken was a firing of the countdown's interval.
Ticked == HandlerRan("tick") \/ HandlerRan("completeRest")

\* The step just taken re-opened, reset or quick-adjusted the timer.
Rewound ==
    \/ HandlerRan("completeSet")
    \/ HandlerRan("handleReset")
    \/ HandlerRan("quickAdjust")

\* C39 (steps): the interval fires only while the timer is visible, running and above
\* 0; a firing above 1 takes exactly 1 off timeRemaining, and a firing at 1 or less
\* sets it to 0, stops the timer and calls onComplete (which hides the timer); a
\* timeRemaining that changes otherwise, or leaves 0, was re-opened, reset or
\* quick-adjusted.
C39_TickSteps ==
    [][/\ Ticked => (ModalShown /\ Counting(screen))
       /\ (Ticked /\ screen.timeRemaining > 1) =>
            /\ screen'.timeRemaining = screen.timeRemaining - 1
            /\ screen'.isRunning
            /\ screen'.handler = "tick"
       /\ (Ticked /\ screen.timeRemaining <= 1) =>
            /\ screen'.timeRemaining = 0
            /\ ~screen'.isRunning
            /\ screen'.handler = "completeRest"
            /\ ~screen'.showRestTimer
       /\ (screen'.timeRemaining # screen.timeRemaining /\ ~Ticked) => Rewound
       /\ (screen.timeRemaining = 0 /\ screen'.timeRemaining # 0) => Rewound
       /\ (~(screen.showRestTimer /\ screen.isRunning)
            /\ screen'.timeRemaining # screen.timeRemaining) => Rewound]_vars

\* C39 (range): timeRemaining is never negative, and at 0 the interval is not set.
C39_NeverNegative ==
    /\ screen.timeRemaining >= 0
    /\ screen.timeRemaining = 0 => ~ENABLED TimerTick

\* C39 (end): a timer that is visible and running is in the end completed (onComplete
\* is called), unless it is hidden or paused before.
C39_Completes ==
    (ModalShown /\ Counting(screen))
      ~> (screen.handler = "completeRest" \/ ~screen.showRestTimer \/ ~screen.isRunning)

\* C39: while the rest timer is visible and running, timeRemaining goes down by
\* exactly 1 per tick and is never negative; the tick that finds it at 1 or less sets
\* it to 0, stops the timer and calls onComplete, and no tick follows until the timer
\* is re-opened, reset or quick-adjusted; paused or hidden, no tick changes
\* timeRemaining; and a timer that stays visible and is never paused has onComplete
\* called in the end.
C39_Countdown ==
    /\ C39_TickSteps
    /\ [](C39_NeverNegative)
    /\ C39_Completes

\* The countdown has run from the default rest time down to 0 and completed the rest.
C39_Witness ==
    /\ screen.handler = "completeRest"
    /\ screen.timeRemaining = 0
    /\ ~screen.isRunning
    /\ ~screen.showRestTimer
    /\ Len(screen.activeWorkout.sets) = 1

=========================================================================
